---- MODULE Spec2Model ----
(***************************************************************************)
(* Vanity-plate monitor (src/vanity-monitor/app.js): the plate registry,   *)
(* key/normalization logic and the due-based refresh scheduler.            *)
(*                                                                         *)
(* Text values (plateText, jurisdiction, facets, keys) are sequences of    *)
(* symbols.  A symbol is one character of plate text, or one of the fixed  *)
(* words of the program ("ID", "CA", "PassengerVehicle", "Personalized",   *)
(* "Select"), which no input of the model spells out character by          *)
(* character, so two texts are equal exactly when their sequences are.     *)
(* A property that is absent from an object is the value Undefined.        *)
(***************************************************************************)
EXTENDS Integers, Sequences, FiniteSets, TLC

VARIABLES
    item,         \* localStorage.getItem(STORAGE_KEY): what is persisted
    now,          \* the wall clock: a position on Timeline
    pending,      \* add-plate / single-plate refresh handlers awaiting their remote check
    runPc,        \* refreshDue: "idle", "check" (awaiting checkAvailability), "sleep"
    runAll,       \* refreshDue: its array `all`, each object tagged with its identity
    runTargets,   \* refreshDue: `targets` when filtered (identities of objects of `all`)
    runForce,     \* refreshDue: force (then `targets` is the array `all` itself)
    runI,         \* refreshDue: records completed so far (loop position and counter i)
    btnDisabled,  \* #refresh.disabled
    runStatus,    \* the text last given to setRunStatus
    reports,      \* the progress reports (i, n) given to setRunStatus by the latest run
    runStart,     \* the persisted array, the clock and force when the latest run began
    checked,      \* the checks the latest run completed: object, endpoint and response, in order
    runIssued,    \* the objects whose check the latest run has issued, in order
    runSleeps,    \* how often the latest run has begun its sleep(CHECK_DELAY_MS)
    issued,       \* the number of remote checks issued so far
    typed         \* the text put into #m_plateText, where a specification draws it at
                  \* Init (the others draw it at each submit and leave this empty)

vars == <<item, now, pending, runPc, runAll, runTargets, runForce, runI,
          btnDisabled, runStatus, reports, runStart, checked, runIssued, runSleeps,
          issued, typed>>

----------------------------------------------------------------------------
(* Bounds of the model *)

\* remote checks issued in one behaviour
MaxChecks == 2

\* characters of a short text put into #m_plateText
MaxRaw == 2

----------------------------------------------------------------------------
(* Values *)

Undefined == <<"undefined">>
Falsy(v) == v = Undefined \/ v = <<>>
\* JavaScript's  v || d
OrElse(v, d) == IF Falsy(v) THEN d ELSE v

\* lastCheckedUtc: null (never checked)
NullTs == 0
\* lastCheckedUtc: a text that new Date() cannot parse (it can only come from an import)
BadTs == -1

\* Representative instants, in increasing order; h counts hours from 2025-01-31 00:00
\* and month is getMonth() (January is 0).  An ISO timestamp is the position of its
\* instant; new Date(iso) is Timeline[iso].
Timeline ==
    << [year |-> 2025, month |-> 0, day |-> 31, h |-> 12],
       [year |-> 2025, month |-> 1, day |-> 1,  h |-> 24],
       [year |-> 2025, month |-> 1, day |-> 1,  h |-> 36],
       [year |-> 2026, month |-> 1, day |-> 1,  h |-> 8784] >>
Instants == 1..Len(Timeline)

ID == <<"ID">>
CA == <<"CA">>
PassengerVehicle == <<"PassengerVehicle">>
Personalized == <<"Personalized">>
Select == <<"Select">>
Empty == <<>>

----------------------------------------------------------------------------
(* Plate text *)

\* String.prototype.toUpperCase on one character
ToUpperChar(c) ==
    CASE c = "a" -> "A"
      [] c = "b" -> "B"
      [] c = "o" -> "O"
      [] OTHER -> c

ToUpperCase(s) == [i \in 1..Len(s) |-> ToUpperChar(s[i])]

\* the character class [A-Z0-9] over the characters of the model
IsAZ09(c) == c \in {"A", "B", "G", "O", "S", "W", "0", "1"}

\* s.replace(/O/g,'0')
ReplaceO(s) == [i \in 1..Len(s) |-> IF s[i] = "O" THEN "0" ELSE s[i]]

\* s.replace(/[^A-Z0-9]/g,'')
StripNonAZ09(s) == SelectSeq(s, IsAZ09)

\* s.slice(0,7)
Slice7(s) == SubSeq(s, 1, IF Len(s) < 7 THEN Len(s) ELSE 7)

\* normalizePlateText replacing O before it uppercases
normalizeReplaceFirst(s) == Slice7(StripNonAZ09(ToUpperCase(ReplaceO(OrElse(s, Empty)))))

normalizePlateText(s) == Slice7(StripNonAZ09(ReplaceO(ToUpperCase(OrElse(s, Empty)))))

\* validatePlateText testing the text as written
validateRawText(s) == [threw |-> Falsy(s), value |-> normalizePlateText(s)]

\* validatePlateText(s): whether it throws, and the text it returns when it does not
validatePlateText(s) ==
    [threw |-> Falsy(normalizePlateText(s)), value |-> normalizePlateText(s)]

----------------------------------------------------------------------------
(* Records *)

NewEntry(text, st) ==
    [ plateText |-> text,
      state |-> st,
      selectedVehicleType |-> PassengerVehicle,
      selectedKindOfPlate |-> Personalized,
      selectedPlateProgram |-> Select,
      selectedPlateProgramID |-> Empty,
      selectedPlateProgramSubCategory |-> Select,
      lastStatus |-> "Unknown",
      lastCheckedUtc |-> NullTs,
      history |-> <<>> ]

\* the entry built from the text as written
m_submitEntryRaw(raw, st) == NewEntry(raw, OrElse(st, ID))

\* the entry the #m_submit handler builds from #m_plateText.value and #m_state.value
m_submitEntry(raw, st) == NewEntry(validatePlateText(raw).value, OrElse(st, ID))

\* [a, b, ...].join("|")
RECURSIVE Join(_)
Join(parts) ==
    IF Len(parts) = 0 THEN <<>>
    ELSE IF Len(parts) = 1 THEN parts[1]
    ELSE parts[1] \o <<"|">> \o Join(Tail(parts))

mkKey(p) ==
    Join(<< ToUpperCase(OrElse(p.plateText, Empty)),
            OrElse(p.state, ID),
            OrElse(p.selectedVehicleType, PassengerVehicle),
            OrElse(p.selectedKindOfPlate, Personalized),
            OrElse(p.selectedPlateProgram, Select),
            OrElse(p.selectedPlateProgramID, Empty),
            OrElse(p.selectedPlateProgramSubCategory, Select) >>)

----------------------------------------------------------------------------
(* Storage *)

\* primary collation weight of a character (locale "en", sensitivity "base":
\* case is ignored, punctuation before digits before letters)
BaseWeight(c) ==
    CASE c \in {"-", " "} -> 0
      [] c = "0" -> 1
      [] c = "1" -> 2
      [] c \in {"a", "A"} -> 3
      [] c \in {"b", "B"} -> 4
      [] c \in {"G"} -> 5
      [] c \in {"o", "O"} -> 6
      [] c \in {"S"} -> 7
      [] c \in {"W"} -> 8
      [] OTHER -> 9

\* a.localeCompare(b, "en", {sensitivity:"base"}) as -1, 0, 1
RECURSIVE localeCompare(_, _)
localeCompare(a, b) ==
    IF Len(a) = 0 /\ Len(b) = 0 THEN 0
    ELSE IF Len(a) = 0 THEN -1
    ELSE IF Len(b) = 0 THEN 1
    ELSE IF BaseWeight(Head(a)) < BaseWeight(Head(b)) THEN -1
    ELSE IF BaseWeight(Head(a)) > BaseWeight(Head(b)) THEN 1
    ELSE localeCompare(Tail(a), Tail(b))

\* the comparator of savePlates
Cmp(a, b) == localeCompare(OrElse(a.plateText, Empty), OrElse(b.plateText, Empty))

\* Array.prototype.sort is stable: x goes after every element that does not follow it
RECURSIVE InsertSorted(_, _)
InsertSorted(x, s) ==
    IF Len(s) = 0 THEN <<x>>
    ELSE IF Cmp(x, s[Len(s)]) >= 0 THEN Append(s, x)
    ELSE Append(InsertSorted(x, SubSeq(s, 1, Len(s) - 1)), s[Len(s)])

\* arr.sort(Cmp)
RECURSIVE SortPlates(_)
SortPlates(arr) ==
    IF Len(arr) = 0 THEN <<>>
    ELSE InsertSorted(arr[Len(arr)], SortPlates(SubSeq(arr, 1, Len(arr) - 1)))

\* What localStorage can hold under STORAGE_KEY: nothing (getItem returns null), the
\* empty string, a text that is not JSON, the JSON text of something that is not an
\* array, or the JSON text of an array of records (arr, the array it decodes to)
NoItem == [kind |-> "null", arr |-> <<>>]
EmptyText == [kind |-> "empty", arr |-> <<>>]
NotJSON == [kind |-> "garbage", arr |-> <<>>]
ObjectText == [kind |-> "object", arr |-> <<>>]

\* JSON.stringify(arr) of an array of records: a property that is undefined is left
\* out, which is how the records of the model hold an absent property already
JSONstringify(arr) == [kind |-> "array", arr |-> arr]

\* JSON.parse(text): it throws on a text that is not JSON (the empty string is not)
JSONparse(text) ==
    [ threw |-> text.kind \in {"empty", "garbage"},
      isArray |-> text.kind = "array",
      value |-> text.arr ]

\* loadPlates that seeds an empty store with a first record
loadPlatesSeeded(raw) ==
    IF raw.kind \in {"null", "empty"} THEN << NewEntry(<<"S", "W", "A", "G">>, Undefined) >>
    ELSE IF JSONparse(raw).threw THEN <<>>
    ELSE IF JSONparse(raw).isArray THEN JSONparse(raw).value
    ELSE <<>>

\* loadPlates() when localStorage.getItem(STORAGE_KEY) is raw
loadPlates(raw) ==
    IF raw.kind = "null" \/ raw.kind = "empty" THEN <<>>
    ELSE LET arr == JSONparse(raw)
         IN  IF arr.threw THEN <<>>
             ELSE IF arr.isArray THEN arr.value
             ELSE <<>>

\* the array loadPlates() returns now: the persisted records
store == loadPlates(item)

\* savePlates without its sort
savePlatesUnsorted(arr) == arr

\* savePlates(arr): arr as it is after the call (sorted in place), which is also the
\* array written to localStorage
savePlates(arr) == SortPlates(arr)

\* localStorage.setItem(STORAGE_KEY, JSON.stringify(arr)): what getItem returns next
setItem(arr) == JSONstringify(arr)

IndexOfKey(list, key) ==
    IF \E i \in 1..Len(list) : mkKey(list[i]) = key
    THEN CHOOSE i \in 1..Len(list) :
            /\ mkKey(list[i]) = key
            /\ \A j \in 1..(i - 1) : mkKey(list[j]) # key
    ELSE 0
\* {...entry, ...old}: a property of the old record wins wherever old has it
SpreadOldWins(old, entry) ==
    [ plateText |-> IF old.plateText = Undefined THEN entry.plateText ELSE old.plateText,
      state |-> IF old.state = Undefined THEN entry.state ELSE old.state,
      selectedVehicleType |->
          IF old.selectedVehicleType = Undefined THEN entry.selectedVehicleType
          ELSE old.selectedVehicleType,
      selectedKindOfPlate |->
          IF old.selectedKindOfPlate = Undefined THEN entry.selectedKindOfPlate
          ELSE old.selectedKindOfPlate,
      selectedPlateProgram |->
          IF old.selectedPlateProgram = Undefined THEN entry.selectedPlateProgram
          ELSE old.selectedPlateProgram,
      selectedPlateProgramID |->
          IF old.selectedPlateProgramID = Undefined THEN entry.selectedPlateProgramID
          ELSE old.selectedPlateProgramID,
      selectedPlateProgramSubCategory |->
          IF old.selectedPlateProgramSubCategory = Undefined
          THEN entry.selectedPlateProgramSubCategory
          ELSE old.selectedPlateProgramSubCategory,
      lastStatus |-> old.lastStatus,
      lastCheckedUtc |-> old.lastCheckedUtc,
      history |-> old.history ]

\* {...old, ...entry}: a property of entry wins wherever entry has it
Spread(old, entry) ==
    [ plateText |-> IF entry.plateText = Undefined THEN old.plateText ELSE entry.plateText,
      state |-> IF entry.state = Undefined THEN old.state ELSE entry.state,
      selectedVehicleType |->
          IF entry.selectedVehicleType = Undefined THEN old.selectedVehicleType
          ELSE entry.selectedVehicleType,
      selectedKindOfPlate |->
          IF entry.selectedKindOfPlate = Undefined THEN old.selectedKindOfPlate
          ELSE entry.selectedKindOfPlate,
      selectedPlateProgram |->
          IF entry.selectedPlateProgram = Undefined THEN old.selectedPlateProgram
          ELSE entry.selectedPlateProgram,
      selectedPlateProgramID |->
          IF entry.selectedPlateProgramID = Undefined THEN old.selectedPlateProgramID
          ELSE entry.selectedPlateProgramID,
      selectedPlateProgramSubCategory |->
          IF entry.selectedPlateProgramSubCategory = Undefined
          THEN old.selectedPlateProgramSubCategory
          ELSE entry.selectedPlateProgramSubCategory,
      lastStatus |-> entry.lastStatus,
      lastCheckedUtc |-> entry.lastCheckedUtc,
      history |-> entry.history ]

\* upsertPlate looking the entry up by its plateText as written, not by its key
upsertPlateByText(list, entry) ==
    LET same(p) == p.plateText = entry.plateText
        hit == { i \in 1..Len(list) : same(list[i]) }
    IN  savePlates(IF hit # {}
                   THEN [list EXCEPT ![CHOOSE i \in hit : \A j \in hit : i <= j] =
                                        Spread(@, entry)]
                   ELSE Append(list, entry))

\* the list upsertPlate(entry) saves, given the list it loaded
upsertPlate(list, entry) ==
    LET i == IndexOfKey(list, mkKey(entry))
    IN  savePlates(IF i > 0 THEN [list EXCEPT ![i] = Spread(list[i], entry)]
                   ELSE Append(list, entry))
\* deleteByKey comparing only the first character of the keys
deleteByKeyHead(list, key) ==
    LET keep(p) == Head(mkKey(p)) # Head(key)
    IN  savePlates(SelectSeq(list, keep))

\* the array deleteByKey(key) saves, given the list it loaded
deleteByKey(list, key) ==
    LET keep(p) == mkKey(p) # key
    IN  savePlates(SelectSeq(list, keep))

\* the defaulting that migrate and the import handler share
Defaulted(p) ==
    [p EXCEPT
        !.state = OrElse(@, ID),
        !.selectedVehicleType = OrElse(@, PassengerVehicle),
        !.selectedKindOfPlate = OrElse(@, Personalized),
        !.selectedPlateProgram = OrElse(@, Select),
        !.selectedPlateProgramID = OrElse(@, Empty),
        !.selectedPlateProgramSubCategory = OrElse(@, Select)]

\* migrate: `changed` after the loop over list
migrateChanged(list) ==
    \E i \in 1..Len(list) : normalizePlateText(list[i].plateText) # list[i].plateText
\* migrate that computes n but does not assign it to p.plateText
migrateListKeepText(list) ==
    [i \in 1..Len(list) |-> Defaulted(list[i])]

\* migrate: the list after the loop
migrateList(list) ==
    [i \in 1..Len(list) |->
        Defaulted([list[i] EXCEPT !.plateText = normalizePlateText(@)])]

\* migrate: what is persisted after it ran with `payload` persisted
migrate(payload) ==
    LET list == loadPlates(payload)
    IN  IF migrateChanged(list) THEN setItem(savePlates(migrateList(list))) ELSE payload

\* the import handler's forEach
importEach(arr) ==
    [i \in 1..Len(arr) |->
        Defaulted([arr[i] EXCEPT
            !.plateText = IF Falsy(@) THEN @ ELSE normalizePlateText(@)])]

\* the #importFile handler on a file whose text is `text`: what is persisted after
\* it, given what was (raw); a text that is not JSON, or not the JSON of an array,
\* ends in the catch block
importFile(raw, text) ==
    IF JSONparse(text).threw THEN raw
    ELSE IF ~JSONparse(text).isArray THEN raw
    ELSE setItem(savePlates(importEach(JSONparse(text).value)))

\* an export that leaves the history of the records out
exportBlobNoHistory(raw) ==
    IF raw.kind \in {"null", "empty"} THEN JSONstringify(<<>>)
    ELSE [raw EXCEPT !.arr = [i \in 1..Len(@) |-> [@[i] EXCEPT !.history = <<>>]]]

\* the text of the file the #exportBtn handler offers: localStorage.getItem(STORAGE_KEY)||"[]"
exportBlob(raw) ==
    IF raw.kind \in {"null", "empty"} THEN JSONstringify(<<>>) ELSE raw

----------------------------------------------------------------------------
(* Status helpers *)

\* Number.isNaN(new Date(ts).getTime())
Unparsable(ts) == ts \notin Instants

\* isDue by elapsed time: due once 24 hours have passed since the last check
isDueAfter24h(p, clock) ==
    IF p.lastCheckedUtc = NullTs THEN TRUE
    ELSE IF Unparsable(p.lastCheckedUtc) THEN TRUE
    ELSE Timeline[clock].h - Timeline[p.lastCheckedUtc].h >= 24
\* isDue comparing the whole timestamp: due as soon as the clock has moved on
isDueOnceTimePassed(p, clock) ==
    IF p.lastCheckedUtc = NullTs THEN TRUE
    ELSE IF Unparsable(p.lastCheckedUtc) THEN TRUE
    ELSE p.lastCheckedUtc # clock

isDue(p, clock) ==
    IF p.lastCheckedUtc = NullTs THEN TRUE
    ELSE IF Unparsable(p.lastCheckedUtc) THEN TRUE
    ELSE LET last == Timeline[p.lastCheckedUtc]
             cur == Timeline[clock]
         IN  last.month # cur.month \/ last.year # cur.year

NoNote == ""

\* markChecked that appends to history and sets lastStatus but leaves lastCheckedUtc
markCheckedNoStamp(p, status, note, clock) ==
    [p EXCEPT
        !.lastStatus = status,
        !.history = Append(@, [status |-> status, checkedUtc |-> clock, note |-> note])]

\* markChecked that starts history over instead of appending to it
markCheckedReplace(p, status, note, clock) ==
    [p EXCEPT
        !.lastStatus = status,
        !.lastCheckedUtc = clock,
        !.history = << [status |-> status, checkedUtc |-> clock, note |-> note] >>]

\* markChecked writing the status into `state` instead of `lastStatus`
markCheckedIntoState(p, status, note, clock) ==
    [p EXCEPT
        !.state = <<status>>,
        !.lastCheckedUtc = clock,
        !.history = Append(@, [status |-> status, checkedUtc |-> clock, note |-> note])]
\* markChecked that leaves lastStatus as it was
markCheckedKeepStatus(p, status, note, clock) ==
    [p EXCEPT
        !.lastCheckedUtc = clock,
        !.history = Append(@, [status |-> status, checkedUtc |-> clock, note |-> note])]

markChecked(p, status, note, clock) ==
    [p EXCEPT
        !.lastStatus = status,
        !.lastCheckedUtc = clock,
        !.history = Append(@, [status |-> status, checkedUtc |-> clock, note |-> note])]

----------------------------------------------------------------------------
(* Remote checks *)

\* What a request can come back with: a 2xx JSON body with Available true, false or
\* missing; a non-2xx JSON body; a body that is not JSON; no response at all.
Responses == {"true", "false", "missing", "http", "nonjson", "network"}

\* CA_PROXY is set
CaProxySet == TRUE

\* postValidateID: [threw, value] where value is the boolean returned, or the message
postValidateID(resp) ==
    CASE resp = "network" -> [threw |-> TRUE, available |-> FALSE, message |-> "Failed to fetch"]
      [] resp = "nonjson" -> [threw |-> TRUE, available |-> FALSE, message |-> "Non-JSON response"]
      [] resp = "http" -> [threw |-> TRUE, available |-> FALSE, message |-> "HTTP"]
      [] OTHER -> [threw |-> FALSE, available |-> (resp = "true"), message |-> NoNote]

postValidateCA(resp) ==
    IF ~CaProxySet
    THEN [threw |-> TRUE, available |-> FALSE, message |-> "California requires a simple proxy"]
    ELSE CASE resp = "network" -> [threw |-> TRUE, available |-> FALSE, message |-> "Failed to fetch"]
           [] resp = "nonjson" -> [threw |-> TRUE, available |-> FALSE, message |-> "CA proxy non-JSON"]
           [] resp = "http" -> [threw |-> TRUE, available |-> FALSE, message |-> "CA proxy HTTP"]
           [] OTHER -> [threw |-> FALSE, available |-> (resp = "true"), message |-> NoNote]

\* checkAvailability(p): where its request goes, CA_PROXY or ID_ENDPOINT
Endpoint(p) == IF OrElse(p.state, ID) = CA THEN "CA_PROXY" ELSE "ID_ENDPOINT"

\* checkAvailability(p) when the request comes back with resp
checkAvailability(p, resp) ==
    LET a == IF Endpoint(p) = "CA_PROXY" THEN postValidateCA(resp) ELSE postValidateID(resp)
    IN  [threw |-> a.threw,
         status |-> IF a.available THEN "Available" ELSE "Unavailable",
         message |-> a.message]

\* the check with an empty catch block: a failure leaves the record as it was
checkAndMarkSwallow(p, resp, clock) ==
    LET c == checkAvailability(p, resp)
    IN  IF c.threw THEN p ELSE markChecked(p, c.status, NoNote, clock)
\* a check whose outcome depends on when it settles: at the last instant of the
\* timeline it is recorded as a failure whatever the response
checkAndMarkByClock(p, resp, clock) ==
    LET c == checkAvailability(p, resp)
    IN  IF c.threw \/ clock = Len(Timeline) THEN markChecked(p, "Error", "late", clock)
        ELSE markChecked(p, c.status, NoNote, clock)

\* try{ status = await checkAvailability(p); markChecked(p, status) }
\* catch(e){ markChecked(p, "Error", String(e?.message||e)) }
checkAndMark(p, resp, clock) ==
    LET c == checkAvailability(p, resp)
    IN  IF c.threw THEN markChecked(p, "Error", c.message, clock)
        ELSE markChecked(p, c.status, NoNote, clock)

----------------------------------------------------------------------------
(* Refresh flow *)

\* an object of the array `all`: the record and the identity of the object
Obj(p, k) ==
    [ plateText |-> p.plateText, state |-> p.state,
      selectedVehicleType |-> p.selectedVehicleType,
      selectedKindOfPlate |-> p.selectedKindOfPlate,
      selectedPlateProgram |-> p.selectedPlateProgram,
      selectedPlateProgramID |-> p.selectedPlateProgramID,
      selectedPlateProgramSubCategory |-> p.selectedPlateProgramSubCategory,
      lastStatus |-> p.lastStatus, lastCheckedUtc |-> p.lastCheckedUtc,
      history |-> p.history, oid |-> k ]

\* JSON.stringify of an object of `all`
Rec(o) ==
    [ plateText |-> o.plateText, state |-> o.state,
      selectedVehicleType |-> o.selectedVehicleType,
      selectedKindOfPlate |-> o.selectedKindOfPlate,
      selectedPlateProgram |-> o.selectedPlateProgram,
      selectedPlateProgramID |-> o.selectedPlateProgramID,
      selectedPlateProgramSubCategory |-> o.selectedPlateProgramSubCategory,
      lastStatus |-> o.lastStatus, lastCheckedUtc |-> o.lastCheckedUtc,
      history |-> o.history ]

Objs(list) == [k \in 1..Len(list) |-> Obj(list[k], k)]
Recs(arr) == [k \in 1..Len(arr) |-> Rec(arr[k])]

\* the filter left out: every object is kept
FilterDueAll(arr, clock) == [k \in 1..Len(arr) |-> arr[k].oid]

\* all.filter(isDue), as the identities of the objects kept
RECURSIVE FilterDue(_, _)
FilterDue(arr, clock) ==
    IF Len(arr) = 0 THEN <<>>
    ELSE IF isDue(Head(arr), clock) THEN <<Head(arr).oid>> \o FilterDue(Tail(arr), clock)
    ELSE FilterDue(Tail(arr), clock)

\* targets.length
TargetsLength(all, targets, force) == IF force THEN Len(all) ELSE Len(targets)

\* the loop visiting `targets` from its end
TargetPosBackwards(all, targets, force, i) ==
    IF force THEN Len(all) - i
    ELSE CHOOSE k \in 1..Len(all) : all[k].oid = targets[Len(targets) - i]

\* the position in `all` of the object the loop visits after i iterations: the
\* iterator of `targets` reads targets[i]; with force, targets is `all` itself
TargetPos(all, targets, force, i) ==
    IF force THEN i + 1
    ELSE CHOOSE k \in 1..Len(all) : all[k].oid = targets[i + 1]

\* the report made before i++
ReportBeforeIncrement(i, n) == <<i - 1, n>>

\* the progress report of setRunStatus(`${i}/${targets.length}`) after i++
Report(i, n) == <<i, n>>

Text(t) == [txt |-> t, i |-> 0, n |-> 0]
Progress(i, n) == [txt |-> "progress", i |-> i, n |-> n]

\* refreshDue without its test of targets.length === 0: with nothing selected it
\* goes through a loop of no iterations and ends as a run does
refreshDueStartNoEmptyTest(payload, force, clock, disabled) ==
    LET all == Objs(loadPlates(payload))
        targets == IF force THEN <<>> ELSE FilterDue(all, clock)
        n == TargetsLength(all, targets, force)
        start == [store |-> loadPlates(payload), now |-> clock, force |-> force]
    IN  IF n = 0
        THEN [pc |-> "idle", all |-> <<>>, targets |-> <<>>, force |-> force, i |-> 0,
              disabled |-> FALSE, status |-> Text("Done"), reports |-> <<>>,
              start |-> start, issued |-> <<>>]
        ELSE [pc |-> "check", all |-> all, targets |-> targets, force |-> force, i |-> 0,
              disabled |-> TRUE, status |-> Progress(0, n), reports |-> <<>>,
              start |-> start,
              issued |-> << all[TargetPos(all, targets, force, 0)].oid >>]
\* refreshDue without btn.disabled=true: the control stays as it was during the run
refreshDueStartLeavesEnabled(payload, force, clock, disabled) ==
    LET all == Objs(loadPlates(payload))
        targets == IF force THEN <<>> ELSE FilterDue(all, clock)
        n == TargetsLength(all, targets, force)
        start == [store |-> loadPlates(payload), now |-> clock, force |-> force]
    IN  IF n = 0
        THEN [pc |-> "idle", all |-> <<>>, targets |-> <<>>, force |-> force, i |-> 0,
              disabled |-> disabled, status |-> Text("Up to date"), reports |-> <<>>,
              start |-> start, issued |-> <<>>]
        ELSE [pc |-> "check", all |-> all, targets |-> targets, force |-> force, i |-> 0,
              disabled |-> disabled, status |-> Progress(0, n), reports |-> <<>>,
              start |-> start,
              issued |-> << all[TargetPos(all, targets, force, 0)].oid >>]

\* refreshDue({force}) up to its first await, with `payload` persisted
refreshDueStart(payload, force, clock, disabled) ==
    LET all == Objs(loadPlates(payload))
        targets == IF force THEN <<>> ELSE FilterDue(all, clock)
        n == TargetsLength(all, targets, force)
        start == [store |-> loadPlates(payload), now |-> clock, force |-> force]
    IN  IF n = 0
        THEN [pc |-> "idle", all |-> <<>>, targets |-> <<>>, force |-> force, i |-> 0,
              disabled |-> disabled, status |-> Text("Up to date"), reports |-> <<>>,
              start |-> start, issued |-> <<>>]
        ELSE [pc |-> "check", all |-> all, targets |-> targets, force |-> force, i |-> 0,
              disabled |-> TRUE, status |-> Progress(0, n), reports |-> <<>>,
              start |-> start,
              issued |-> << all[TargetPos(all, targets, force, 0)].oid >>]

\* the records a call of refreshDue selects, in order
Selected(payload, force, clock) ==
    LET all == Objs(loadPlates(payload))
        targets == IF force THEN <<>> ELSE FilterDue(all, clock)
    IN  [i \in 1..TargetsLength(all, targets, force) |->
            Rec(all[TargetPos(all, targets, force, i - 1)])]

\* the checks the call will issue are within the bound
RunRoom(payload, force, clock) ==
    issued + Len(Selected(payload, force, clock)) <= MaxChecks

SetRun(r) ==
    /\ runPc' = r.pc
    /\ runAll' = r.all
    /\ runTargets' = r.targets
    /\ runForce' = r.force
    /\ runI' = r.i
    /\ btnDisabled' = r.disabled
    /\ runStatus' = r.status
    /\ reports' = r.reports
    /\ runStart' = r.start
    /\ checked' = <<>>
    /\ runIssued' = r.issued
    /\ runSleeps' = 0

----------------------------------------------------------------------------
(* The state machine *)

\* the record the earlier single-jurisdiction version of the page seeds into an empty
\* store: never checked, and without `state`
SeedRecord == NewEntry(<<"S", "W", "A", "G">>, Undefined)

\* What localStorage can hold when the page loads: nothing, or the seeded record
InitStores == { <<>>, <<SeedRecord>> }

\* DOMContentLoaded with `payload` persisted: migrate, then init() calls
\* refreshDue({force:false}); text is what is then put into #m_plateText
LoadedTyped(payload, clock, text) ==
    LET r == refreshDueStart(migrate(payload), FALSE, clock, FALSE)
    IN  /\ item = migrate(payload)
        /\ now = clock
        /\ pending = <<>>
        /\ runPc = r.pc
        /\ runAll = r.all
        /\ runTargets = r.targets
        /\ runForce = r.force
        /\ runI = r.i
        /\ btnDisabled = r.disabled
        /\ runStatus = r.status
        /\ reports = r.reports
        /\ runStart = r.start
        /\ checked = <<>>
        /\ runIssued = r.issued
        /\ runSleeps = 0
        /\ issued = Len(r.issued)
        /\ typed = text

Loaded(payload, clock) == LoadedTyped(payload, clock, Empty)

Init == \E s0 \in InitStores : Loaded(JSONstringify(s0), 1)

runVars == <<runPc, runAll, runTargets, runForce, runI, btnDisabled, runStatus, reports,
             runStart, checked, runIssued, runSleeps>>

\* time passes
Tick ==
    /\ now < Len(Timeline)
    /\ now' = now + 1
    /\ UNCHANGED <<item, pending, runVars, issued, typed>>

\* the page is closed and opened again
Reload ==
    /\ RunRoom(migrate(item), FALSE, now)
    /\ item' = migrate(item)
    /\ pending' = <<>>
    /\ SetRun(refreshDueStart(migrate(item), FALSE, now, FALSE))
    /\ issued' = issued + Len(runIssued')
    /\ UNCHANGED <<now, typed>>

\* #cfm_due / #cfm_force click (the dialog opens only while #refresh is enabled)
StartRun(force) ==
    /\ ~btnDisabled
    /\ RunRoom(item, force, now)
    /\ SetRun(refreshDueStart(item, force, now, btnDisabled))
    /\ issued' = issued + Len(runIssued')
    /\ UNCHANGED <<item, now, pending, typed>>

\* savePlates(all) inside the loop, before the run has ended, left out
RunPersistAtEnd(payload, all, i, n) == IF i < n THEN payload ELSE Recs(all)
\* savePlates(all.slice(0,i)): only the records done so far are written
RunPersistDoneOnly(payload, all, i, n) == Recs(SubSeq(all, 1, i))

\* refreshDue: localStorage after the savePlates(all) of an iteration, given what it
\* held (payload), the array `all`, the records done (i) and targets.length (n)
RunPersist(payload, all, i, n) == Recs(all)

\* a delay after every record, the last one included
SleepAfterEvery(i, n) == TRUE

\* refreshDue: if(i<targets.length) await sleep(CHECK_DELAY_MS), after i of n records
SleepAfter(i, n) == i < n

\* refreshDue: the awaited check of the current record settles; the handler runs on
\* to its next await (the sleep) or to its end.  k is the position in `all` of the
\* current record, marked the object after markChecked, all the array after
\* savePlates(all) sorted it.
RunChecked(resp) ==
    /\ runPc = "check"
    /\ \E k \in { TargetPos(runAll, runTargets, runForce, runI) } :
       \E marked \in { Obj(checkAndMark(Rec(runAll[k]), resp, now), runAll[k].oid) } :
       \E all \in { savePlates([runAll EXCEPT ![k] = marked]) } :
          LET n == TargetsLength(runAll, runTargets, runForce)
              i == runI + 1
          IN  /\ item' = setItem(RunPersist(store, all, i, n))
              /\ reports' = Append(reports, Report(i, n))
              /\ checked' = Append(checked, [oid |-> marked.oid, resp |-> resp,
                                              via |-> Endpoint(Rec(runAll[k]))])
              /\ IF SleepAfter(i, n)
                 THEN /\ runPc' = "sleep"
                      /\ runAll' = all
                      /\ runI' = i
                      /\ runSleeps' = runSleeps + 1
                      /\ runStatus' = Progress(i, n)
                      /\ UNCHANGED <<runTargets, btnDisabled>>
                 ELSE /\ runPc' = "idle"
                      /\ runAll' = <<>>
                      /\ runTargets' = <<>>
                      /\ runI' = 0
                      /\ runStatus' = Text("Done")
                      /\ btnDisabled' = FALSE
                      /\ UNCHANGED runSleeps
    /\ UNCHANGED <<now, pending, runForce, runStart, runIssued, issued, typed>>

\* a sleep whose promise is never resolved: the loop does not go on
RunWakeNever ==
    /\ runPc = "sleep"
    /\ FALSE
    /\ UNCHANGED vars
\* a loop that does not move on: after the sleep the request of the record just
\* checked is issued again
RunWakeSameRecord ==
    /\ runPc = "sleep"
    /\ runPc' = "check"
    /\ runIssued' = Append(runIssued, runIssued[Len(runIssued)])
    /\ issued' = issued + 1
    /\ UNCHANGED <<item, now, pending, runAll, runTargets, runForce, runI,
                   btnDisabled, runStatus, reports, runStart, checked, runSleeps, typed>>

\* refreshDue: sleep(CHECK_DELAY_MS) is over and the loop goes on: the next record's
\* check is issued or, with no record left, the statements after the loop run
RunWake ==
    /\ runPc = "sleep"
    /\ IF runI < TargetsLength(runAll, runTargets, runForce)
       THEN /\ runPc' = "check"
            /\ runIssued' = Append(runIssued,
                                   runAll[TargetPos(runAll, runTargets, runForce, runI)].oid)
            /\ issued' = issued + 1
            /\ UNCHANGED <<runAll, runTargets, runI, btnDisabled, runStatus>>
       ELSE /\ runPc' = "idle"
            /\ runAll' = <<>>
            /\ runTargets' = <<>>
            /\ runI' = 0
            /\ runStatus' = Text("Done")
            /\ btnDisabled' = FALSE
            /\ UNCHANGED <<runIssued, issued>>
    /\ UNCHANGED <<item, now, pending, runForce, reports, runStart, checked, runSleeps, typed>>

\* What the user types into #m_plateText and picks in #m_state
AddInputs ==
    { [raw |-> <<"a">>, st |-> ID], [raw |-> <<"A">>, st |-> ID],
      [raw |-> <<"o">>, st |-> CA], [raw |-> <<"-">>, st |-> ID] }

\* #m_submit click, up to the await of the check; when validatePlateText throws, the
\* handler shows the error and ends
AddSubmit(raw, st) ==
    /\ IF validatePlateText(raw).threw
       THEN UNCHANGED <<pending, issued>>
       ELSE /\ issued < MaxChecks
            /\ pending' = Append(pending, [kind |-> "add", rec |-> m_submitEntry(raw, st)])
            /\ issued' = issued + 1
    /\ UNCHANGED <<item, now, runVars, typed>>

\* the keys render() wrote into the board
BoardKeys == { mkKey(store[i]) : i \in 1..Len(store) }

\* click on a tile's Refresh button, up to the await of the check
RefreshClick(key) ==
    /\ issued < MaxChecks
    /\ LET list == loadPlates(item)
           p == list[IndexOfKey(list, key)]
       IN  pending' = Append(pending, [kind |-> "single", rec |-> p])
    /\ issued' = issued + 1
    /\ UNCHANGED <<item, now, runVars, typed>>

Remove(s, k) == [j \in 1..(Len(s) - 1) |-> IF j < k THEN s[j] ELSE s[j + 1]]

\* the check awaited by an add-plate or single-plate refresh handler settles:
\* markChecked, then upsertPlate
PendingChecked(k, resp) ==
    /\ item' = setItem(upsertPlate(loadPlates(item), checkAndMark(pending[k].rec, resp, now)))
    /\ pending' = Remove(pending, k)
    /\ UNCHANGED <<now, runVars, issued, typed>>

\* a key no record has
NoSuchKey == mkKey(NewEntry(<<"1">>, ID))

\* #del_confirm click with pendingDeleteKey = key
Delete(key) ==
    /\ item' = setItem(deleteByKey(loadPlates(item), key))
    /\ UNCHANGED <<now, pending, runVars, issued, typed>>

\* The files the user imports: one that does not hold an array, and an array of two
\* records, the first as an older export would have it (no state, no program)
ImportPayloads ==
    { ObjectText,
      JSONstringify(<< [NewEntry(<<"a">>, Undefined) EXCEPT !.selectedPlateProgram = Undefined],
                       NewEntry(<<"A">>, ID) >>) }

\* #importFile change, with a file whose text is `file`
Import(file) ==
    /\ item' = importFile(item, file)
    /\ UNCHANGED <<now, pending, runVars, issued, typed>>

\* The responses the checks get while every handler of the page may interleave
Replies == {"true", "nonjson"}

Next ==
    \/ Tick
    \/ Reload
    \/ \E force \in BOOLEAN : StartRun(force)
    \/ \E resp \in Replies : RunChecked(resp)
    \/ RunWake
    \/ \E in \in AddInputs : AddSubmit(in.raw, in.st)
    \/ \E key \in BoardKeys : RefreshClick(key)
    \/ \E k \in 1..Len(pending), resp \in Replies : PendingChecked(k, resp)
    \/ \E key \in BoardKeys \cup {NoSuchKey} : Delete(key)
    \/ \E file \in ImportPayloads : Import(file)

\* Every handler of the page, interleaved at its awaits
Spec == Init /\ [][Next]_vars

----------------------------------------------------------------------------
(* Refresh runs alone: nothing else writes the store while a run is in progress *)

Checked(p, clock, status) ==
    markChecked(p, status, NoNote, clock)

\* Stores earlier sessions left (sorted, one record per key): records checked on
\* 2025-01-31, never checked, or imported with a timestamp that does not parse
RunStores ==
    { <<>>,
      << Checked(NewEntry(<<"0">>, CA), 1, "Unavailable"),
         Checked(NewEntry(<<"A">>, ID), 1, "Available"),
         Checked(SeedRecord, 1, "Available") >>,
      << Checked(NewEntry(<<"0">>, CA), 1, "Available"),
         Checked(NewEntry(<<"A">>, ID), 1, "Unavailable") >>,
      << Checked(NewEntry(<<"A">>, ID), 1, "Available"), SeedRecord >>,
      << SeedRecord >>,
      << [NewEntry(<<"A">>, ID) EXCEPT !.lastCheckedUtc = BadTs] >> }

InitRun == \E s0 \in RunStores : Loaded(JSONstringify(s0), 1)

NextRun ==
    \/ Tick
    \/ \E force \in BOOLEAN : StartRun(force)
    \/ \E resp \in Responses : RunChecked(resp)
    \/ RunWake

SpecRun == InitRun /\ [][NextRun]_vars

\* Refresh runs alone, where every request comes back (with a response or with a
\* failure) and every timer of sleep() fires
NextRunLive ==
    \/ Tick
    \/ \E force \in BOOLEAN : StartRun(force)
    \/ \E resp \in Replies : RunChecked(resp)
    \/ RunWake

SpecRunLive ==
    /\ InitRun
    /\ [][NextRunLive]_vars
    /\ WF_vars(\E resp \in Replies : RunChecked(resp))
    /\ WF_vars(RunWake)

\* Refresh runs, and the page closed at any moment (which ends the handlers in
\* progress) and opened again
NextRunStop ==
    \/ NextRun
    \/ Reload

SpecRunStop == InitRun /\ [][NextRunStop]_vars

----------------------------------------------------------------------------
(* The add-plate dialog alone, on one text *)

\* the characters of the short texts: a lower-case letter, the letter o, a character
\* outside [A-Za-z0-9], a digit
RawChars == {"a", "o", "-", "1"}

RECURSIVE TextsUpTo(_)
TextsUpTo(n) ==
    IF n = 0 THEN { <<>> }
    ELSE TextsUpTo(n - 1) \cup { Append(t, c) : t \in { u \in TextsUpTo(n - 1) : Len(u) = n - 1 },
                                                c \in RawChars }

\* seven characters that normalize to six
PadText == <<"b", "o", "-", "A", "1", "0", "G">>

\* The texts put into #m_plateText: the short ones, and each of them after PadText
\* (which normalize to six, seven and more than seven characters)
RawTexts == TextsUpTo(MaxRaw) \cup { PadText \o t : t \in TextsUpTo(MaxRaw) }

\* the values of #m_state
StateValues == { ID, CA, Empty }

\* What the store holds when the dialog opens: nothing, or a record of plate A
AddStores == { <<>>, << Checked(NewEntry(<<"A">>, ID), 1, "Available") >> }

InitAdd == \E s0 \in AddStores, text \in RawTexts : LoadedTyped(JSONstringify(s0), 1, text)

\* the input handler of #m_plateText: the field's value is replaced by its
\* normalization
PlateTextInput ==
    /\ typed' = normalizePlateText(typed)
    /\ UNCHANGED <<item, now, pending, runVars, issued>>

\* the user deletes the text of #m_plateText
PlateTextCleared ==
    /\ typed # Empty
    /\ typed' = Empty
    /\ UNCHANGED <<item, now, pending, runVars, issued>>

NextAdd ==
    \/ PlateTextInput
    \/ PlateTextCleared
    \/ \E st \in StateValues : AddSubmit(typed, st)
    \/ \E k \in 1..Len(pending), resp \in Replies : PendingChecked(k, resp)

SpecAdd == InitAdd /\ [][NextAdd]_vars

----------------------------------------------------------------------------
(* Imports of records whose facets are any text *)

\* Records of plate A as a file can hold them: state and selectedVehicleType absent,
\* one of the program's values, or a text with the character "|" in it
KeyRecords ==
    { [NewEntry(<<"A">>, st) EXCEPT !.selectedVehicleType = vt] :
        st \in { Undefined, ID, CA, <<"CA", "|", "X">> },
        vt \in { Undefined, PassengerVehicle, <<"Y">>, <<"X", "|", "Y">> } }

\* The files: arrays of one or two of these records
KeyPayloads ==
    { JSONstringify(<<p>>) : p \in KeyRecords }
        \cup { JSONstringify(<<p, q>>) : p, q \in KeyRecords }

NextKeys == \E file \in KeyPayloads : Import(file)

SpecKeys == Init /\ [][NextKeys]_vars

----------------------------------------------------------------------------
(* upsertPlate alone, from an empty store *)

UpsertEntries ==
    { [NewEntry(text, st) EXCEPT !.lastStatus = status] :
        text \in { <<"a">>, <<"A">>, <<"o">> },
        st \in { ID, CA, Undefined },
        status \in { "Unknown", "Available" } }

InitUpsert == Loaded(JSONstringify(<<>>), 1)

Upsert(entry) ==
    /\ item' = setItem(upsertPlate(loadPlates(item), entry))
    /\ UNCHANGED <<now, pending, runVars, issued, typed>>

NextUpsert == \E entry \in UpsertEntries : Upsert(entry)

SpecUpsert == InitUpsert /\ [][NextUpsert]_vars

----------------------------------------------------------------------------
(* upsertPlate and deleteByKey alone, from a store of one record *)

\* the record of plate A in Idaho, checked on 2025-01-31
RegistryStore == << Checked(NewEntry(<<"A">>, ID), 1, "Available") >>

InitRegistry == Loaded(JSONstringify(RegistryStore), 1)

NextRegistry ==
    \/ \E entry \in UpsertEntries : Upsert(entry)
    \/ \E key \in BoardKeys \cup {NoSuchKey} : Delete(key)

SpecRegistry == InitRegistry /\ [][NextRegistry]_vars

----------------------------------------------------------------------------
(* Page loads on whatever localStorage holds *)

\* What localStorage can hold under STORAGE_KEY when the page reads it
LoadItems ==
    { NoItem, EmptyText, NotJSON, ObjectText }
        \cup { JSONstringify(s) : s \in InitStores \cup { RegistryStore } }

InitLoad == \E raw \in LoadItems : Loaded(raw, 1)

\* localStorage is written from outside the handlers of the page: the site data is
\* cleared, or the key is set by hand or by another page of the origin
StorageSet(raw) ==
    /\ item' = raw
    /\ UNCHANGED <<now, pending, runVars, issued, typed>>

\* the entries upserted between loads: plate A in Idaho, plate o in California
LoadEntries == { NewEntry(<<"A">>, ID), NewEntry(<<"o">>, CA) }

NextLoad ==
    \/ \E raw \in LoadItems : StorageSet(raw)
    \/ Reload
    \/ \E entry \in LoadEntries : Upsert(entry)

SpecLoad == InitLoad /\ [][NextLoad]_vars

----------------------------------------------------------------------------
(* Page loads on stores that earlier versions or imports left *)

\* plate texts as they can be persisted: absent, canonical, or as once typed
MigrateTexts == { Undefined, <<"A">>, <<"o">>, <<"a", "-", "o">> }

\* records checked on 2025-01-31, with or without `state`
MigrateRecords ==
    { Checked(NewEntry(text, st), 1, "Available") : text \in MigrateTexts, st \in { Undefined, CA } }

\* What localStorage holds at the first load: nothing, or an array of one or two of
\* these records as savePlates ordered it
MigrateItems ==
    { NoItem } \cup { JSONstringify(<<p>>) : p \in MigrateRecords }
        \cup { JSONstringify(savePlates(<<p, q>>)) : p, q \in MigrateRecords }

InitMigrate == \E raw \in MigrateItems : Loaded(raw, 1)

NextMigrate ==
    \/ Tick
    \/ Reload

SpecMigrate == InitMigrate /\ [][NextMigrate]_vars

----------------------------------------------------------------------------
(* Refresh runs over records of any jurisdiction *)

\* a jurisdiction the page has no checker for (an import keeps any `state` it finds)
Unsupported == <<"WA">>

\* Stores earlier sessions left: records of Idaho and California checked on
\* 2025-01-31, and a record imported with jurisdiction WA and never checked
RouteStores ==
    { << Checked(NewEntry(<<"0">>, CA), 1, "Unavailable"),
         Checked(NewEntry(<<"A">>, ID), 1, "Available") >>,
      << NewEntry(<<"A">>, Unsupported) >>,
      << Checked(NewEntry(<<"0">>, CA), 1, "Available"), NewEntry(<<"A">>, Unsupported) >>,
      << NewEntry(<<"A">>, Unsupported), SeedRecord >> }

InitRoute == \E s0 \in RouteStores : Loaded(JSONstringify(s0), 1)

SpecRoute == InitRoute /\ [][NextRun]_vars

----------------------------------------------------------------------------
(* Imports alone, of files that list records in any written form *)

\* Records as a file can list them: plateText absent, canonical or as once typed;
\* `state` absent, California or another; selectedPlateProgram absent or set
ImportRecords ==
    { [NewEntry(text, st) EXCEPT !.selectedPlateProgram = prog] :
        text \in { Undefined, <<"A">>, <<"o">>, <<"a", "-", "o">> },
        st \in { Undefined, CA, Unsupported },
        prog \in { Undefined, Select } }

\* The files: a text that is not JSON, the JSON of an object, and the JSON of an
\* array of one or two records
ImportFiles ==
    { NotJSON, ObjectText }
        \cup { JSONstringify(<<p>>) : p \in ImportRecords }
        \cup { JSONstringify(<<p, q>>) : p, q \in ImportRecords }

NextImport == \E file \in ImportFiles : Import(file)

SpecImport == Init /\ [][NextImport]_vars

----------------------------------------------------------------------------
(* Add, refresh, delete and export/import, on stores that adds wrote *)

\* What localStorage holds at the first load: nothing, an empty array, or the two
\* records that adds on 2025-01-31 left
RoundItems ==
    { NoItem, JSONstringify(<<>>),
      JSONstringify(<< Checked(m_submitEntry(<<"o">>, CA), 1, "Unavailable"),
                       Checked(m_submitEntry(<<"a">>, Empty), 1, "Available") >>) }

InitRound == \E raw \in RoundItems : Loaded(raw, 1)

\* #exportBtn click, then #importFile change with the file just saved
ExportImport ==
    /\ item' = importFile(item, exportBlob(item))
    /\ UNCHANGED <<now, pending, runVars, issued, typed>>

NextRound ==
    \/ \E force \in BOOLEAN : StartRun(force)
    \/ \E resp \in Replies : RunChecked(resp)
    \/ RunWake
    \/ \E in \in AddInputs : AddSubmit(in.raw, in.st)
    \/ \E key \in BoardKeys : RefreshClick(key)
    \/ \E k \in 1..Len(pending), resp \in Replies : PendingChecked(k, resp)
    \/ \E key \in BoardKeys \cup {NoSuchKey} : Delete(key)
    \/ ExportImport

SpecRound == InitRound /\ [][NextRound]_vars

----------------------------------------------------------------------------
(* Specification SpecChecks: records made by add-plate and then only checked: by the
   add itself, by single-plate refreshes and by runs, while time passes *)

NextChecks ==
    \/ Tick
    \/ \E in \in AddInputs : AddSubmit(in.raw, in.st)
    \/ \E key \in BoardKeys : RefreshClick(key)
    \/ \E k \in 1..Len(pending), resp \in Replies : PendingChecked(k, resp)
    \/ \E force \in BOOLEAN : StartRun(force)
    \/ \E resp \in Replies : RunChecked(resp)
    \/ RunWake

SpecChecks == InitRound /\ [][NextChecks]_vars

----------------------------------------------------------------------------
(* Specification SpecLegacy: the earlier single-jurisdiction version of the page. It
   keeps its records under the same localStorage key, so it can find records that
   the later version wrote (with `state`).  Its refresh loop is the later one's but
   for the check, which always goes to the one endpoint. *)

REFRESH_CUTOFF_HOURS == 24

\* isDue with > in place of >=
isDue_legacyStrict(p, clock) ==
    IF p.lastCheckedUtc = NullTs THEN TRUE
    ELSE IF Unparsable(p.lastCheckedUtc) THEN TRUE
    ELSE Timeline[clock].h - Timeline[p.lastCheckedUtc].h > REFRESH_CUTOFF_HOURS

\* isDue(p) at Date.now() = clock
isDue_legacy(p, clock) ==
    IF p.lastCheckedUtc = NullTs THEN TRUE
    ELSE IF Unparsable(p.lastCheckedUtc) THEN TRUE
    ELSE Timeline[clock].h - Timeline[p.lastCheckedUtc].h >= REFRESH_CUTOFF_HOURS

mkKey_legacy(p) ==
    Join(<< ToUpperCase(OrElse(p.plateText, Empty)),
            OrElse(p.selectedVehicleType, PassengerVehicle),
            OrElse(p.selectedKindOfPlate, Personalized),
            OrElse(p.selectedPlateProgram, Select),
            OrElse(p.selectedPlateProgramID, Empty),
            OrElse(p.selectedPlateProgramSubCategory, Select) >>)

deleteByKey_legacy(list, key) ==
    LET keep(p) == mkKey_legacy(p) # key
    IN  savePlates(SelectSeq(list, keep))

\* migrate: the list after the loop
migrateList_legacy(list) ==
    [i \in 1..Len(list) |->
        [list[i] EXCEPT
            !.plateText = normalizePlateText(@),
            !.selectedVehicleType = OrElse(@, PassengerVehicle),
            !.selectedKindOfPlate = OrElse(@, Personalized),
            !.selectedPlateProgram = OrElse(@, Select),
            !.selectedPlateProgramID = OrElse(@, Empty),
            !.selectedPlateProgramSubCategory = OrElse(@, Select)]]

\* migrate: what is persisted after it ran with `payload` persisted
migrate_legacy(payload) ==
    LET list == loadPlates(payload)
        changed == \E i \in 1..Len(list) :
                      normalizePlateText(list[i].plateText) # list[i].plateText
    IN  IF changed THEN setItem(savePlates(migrateList_legacy(list))) ELSE payload

\* init: what is persisted when it calls refreshDue, with `payload` persisted before
init_legacy(payload) ==
    IF Len(loadPlates(payload)) = 0
    THEN setItem(savePlates(<< NewEntry(<<"S", "W", "A", "G">>, Undefined) >>))
    ELSE payload

RECURSIVE FilterDue_legacy(_, _)
\* all.filter(isDue), as the identities of the objects kept
FilterDue_legacy(arr, clock) ==
    IF Len(arr) = 0 THEN <<>>
    ELSE IF isDue_legacy(Head(arr), clock)
         THEN <<Head(arr).oid>> \o FilterDue_legacy(Tail(arr), clock)
    ELSE FilterDue_legacy(Tail(arr), clock)

\* refreshDue({force}) up to its first await, with `payload` persisted
refreshDueStart_legacy(payload, force, clock, disabled) ==
    LET all == Objs(loadPlates(payload))
        targets == IF force THEN <<>> ELSE FilterDue_legacy(all, clock)
        n == TargetsLength(all, targets, force)
        start == [store |-> loadPlates(payload), now |-> clock, force |-> force]
    IN  IF n = 0
        THEN [pc |-> "idle", all |-> <<>>, targets |-> <<>>, force |-> force, i |-> 0,
              disabled |-> disabled, status |-> Text("Up to date"), reports |-> <<>>,
              start |-> start, issued |-> <<>>]
        ELSE [pc |-> "check", all |-> all, targets |-> targets, force |-> force, i |-> 0,
              disabled |-> TRUE, status |-> Progress(0, n), reports |-> <<>>,
              start |-> start,
              issued |-> << all[TargetPos(all, targets, force, 0)].oid >>]

\* postValidate when the request comes back with resp
postValidate_legacy(resp) ==
    CASE resp = "network" -> [threw |-> TRUE, available |-> FALSE, message |-> "Failed to fetch"]
      [] resp = "nonjson" -> [threw |-> TRUE, available |-> FALSE, message |-> "Non-JSON response"]
      [] resp = "http" -> [threw |-> TRUE, available |-> FALSE, message |-> "HTTP"]
      [] OTHER -> [threw |-> FALSE, available |-> (resp = "true"), message |-> NoNote]

\* the try / catch of the loop body: postValidate(basePayload(p)), then markChecked
checkAndMark_legacy(p, resp, clock) ==
    LET a == postValidate_legacy(resp)
    IN  IF a.threw THEN markChecked(p, "Error", a.message, clock)
        ELSE markChecked(p, IF a.available THEN "Available" ELSE "Unavailable", NoNote, clock)

\* What the page can find under its key: nothing, a text that is not JSON, a record
\* checked on 31 January and one checked at midnight on 1 February, or two records of
\* the later version that differ in `state` only
LegacyItems ==
    { NoItem, NotJSON,
      JSONstringify(<< Checked(NewEntry(<<"A">>, Undefined), 1, "Available"),
                       Checked(NewEntry(<<"B">>, Undefined), 2, "Unavailable") >>),
      JSONstringify(<< Checked(NewEntry(<<"A">>, CA), 1, "Available"),
                       Checked(NewEntry(<<"A">>, ID), 1, "Available") >>) }

\* DOMContentLoaded with `payload` persisted: migrate, then init seeds an empty store
\* and calls refreshDue({force:false})
Loaded_legacy(payload, clock) ==
    LET r == refreshDueStart_legacy(init_legacy(migrate_legacy(payload)), FALSE, clock, FALSE)
    IN  /\ item = init_legacy(migrate_legacy(payload))
        /\ now = clock
        /\ pending = <<>>
        /\ runPc = r.pc
        /\ runAll = r.all
        /\ runTargets = r.targets
        /\ runForce = r.force
        /\ runI = r.i
        /\ btnDisabled = r.disabled
        /\ runStatus = r.status
        /\ reports = r.reports
        /\ runStart = r.start
        /\ checked = <<>>
        /\ runIssued = r.issued
        /\ runSleeps = 0
        /\ issued = Len(r.issued)
        /\ typed = Empty

InitLegacy == \E raw \in LegacyItems : Loaded_legacy(raw, 2)

\* the page is closed and opened again
Reload_legacy ==
    /\ \E loaded \in { init_legacy(migrate_legacy(item)) } :
          /\ issued + Len(FilterDue_legacy(Objs(loadPlates(loaded)), now)) <= MaxChecks
          /\ item' = loaded
          /\ SetRun(refreshDueStart_legacy(loaded, FALSE, now, FALSE))
    /\ pending' = <<>>
    /\ issued' = issued + Len(runIssued')
    /\ UNCHANGED <<now, typed>>

\* refreshDue: the awaited postValidate of the current record settles; the handler
\* runs on to its next await (the sleep) or to its end
RunChecked_legacy(resp) ==
    /\ runPc = "check"
    /\ \E k \in { TargetPos(runAll, runTargets, runForce, runI) } :
       \E marked \in { Obj(checkAndMark_legacy(Rec(runAll[k]), resp, now), runAll[k].oid) } :
       \E all \in { savePlates([runAll EXCEPT ![k] = marked]) } :
          LET n == TargetsLength(runAll, runTargets, runForce)
              i == runI + 1
          IN  /\ item' = setItem(Recs(all))
              /\ reports' = Append(reports, <<i, n>>)
              /\ checked' = Append(checked, [oid |-> marked.oid, resp |-> resp,
                                              via |-> "ENDPOINT"])
              /\ IF i < n
                 THEN /\ runPc' = "sleep"
                      /\ runAll' = all
                      /\ runI' = i
                      /\ runSleeps' = runSleeps + 1
                      /\ runStatus' = Progress(i, n)
                      /\ UNCHANGED <<runTargets, btnDisabled>>
                 ELSE /\ runPc' = "idle"
                      /\ runAll' = <<>>
                      /\ runTargets' = <<>>
                      /\ runI' = 0
                      /\ runStatus' = Text("Done")
                      /\ btnDisabled' = FALSE
                      /\ UNCHANGED runSleeps
    /\ UNCHANGED <<now, pending, runForce, runStart, runIssued, issued, typed>>

\* #del_confirm click for the card with this key
Delete_legacy(key) ==
    /\ item' = setItem(deleteByKey_legacy(loadPlates(item), key))
    /\ UNCHANGED <<now, pending, runVars, issued, typed>>

NextLegacy ==
    \/ Tick
    \/ Reload_legacy
    \/ \E resp \in Replies : RunChecked_legacy(resp)
    \/ RunWake
    \/ \E key \in { mkKey_legacy(store[i]) : i \in 1..Len(store) } : Delete_legacy(key)

SpecLegacy == InitLegacy /\ [][NextLegacy]_vars

----------------------------------------------------------------------------
(* Properties of the store *)

IsPrefix(h, g) == Len(h) <= Len(g) /\ SubSeq(g, 1, Len(h)) = h

KeysOf(list) == { mkKey(list[i]) : i \in 1..Len(list) }

\* C1: whatever the handlers of the page do (add, delete, import, migrate on load,
\* single-plate refresh, refresh runs), the persisted array never holds two records
\* with the same derived key.
C1_OneRecordPerKey == Cardinality(KeysOf(store)) = Len(store)

\* C2: starting from an empty store, after any sequence of upsertPlate calls no two
\* records of the persisted array have the same derived key.
C2_UpsertKeepsKeysDistinct ==
    \A i, j \in 1..Len(store) : i # j => mkKey(store[i]) # mkKey(store[j])

\* C2's case: upserts of differently-cased texts have left several records
C2_Witness ==
    /\ Len(store) >= 3
    /\ \E i, j \in 1..Len(store) :
          /\ store[i].plateText = <<"a">>
          /\ store[j].plateText = <<"A">>
          /\ store[j].lastStatus = "Available"

\* C3: the persisted array is always in non-decreasing order of plateText compared
\* without regard to case, whichever handler wrote it last.
C3_SortedByPlateText ==
    \A i \in 1..(Len(store) - 1) : Cmp(store[i], store[i + 1]) <= 0

\* C3's case: a record written later stands before a record written earlier
C3_Witness ==
    /\ Len(store) >= 2
    /\ Cmp(store[1], store[2]) < 0
    /\ store[2].lastCheckedUtc = NullTs
    /\ store[1].lastCheckedUtc \in Instants

\* C4: history is append-only: in every step in which the check of an add-plate
\* handler, of a single-plate refresh or of a refresh run settles, a record whose key
\* is in the store before and after keeps its old history as a prefix of its new one.
C4_HistoryAppendOnly ==
    [][( (\E k \in 1..Len(pending), resp \in Responses : PendingChecked(k, resp))
         \/ (\E resp \in Responses : RunChecked(resp)) )
       => \A i \in 1..Len(store) : \A j \in 1..Len(store') :
             mkKey(store[i]) = mkKey(store'[j])
                 => IsPrefix(store[i].history, store'[j].history)]_vars

----------------------------------------------------------------------------
(* Properties of a refresh run *)

\* the responses that make checkAvailability throw
Fails(resp) == resp \in {"http", "nonjson", "network"}

\* a run that selected something has finished and no other has begun
RunDone == runPc = "idle" /\ checked # <<>>

\* the positions, in the store as it was when the latest run began, of the records
\* that run is to process
SelectedAtStart ==
    LET n == Len(runStart.store)
        due(k) == isDue(runStart.store[k], runStart.now)
        every == [k \in 1..n |-> k]
    IN  IF runStart.force THEN every ELSE SelectSeq(every, due)

CheckedOids == [j \in 1..Len(checked) |-> checked[j].oid]

\* the record at position k has exactly one history entry more than when the run began
OneAppend(k) ==
    /\ k \in 1..Len(store)
    /\ Len(store[k].history) = Len(runStart.store[k].history) + 1
    /\ IsPrefix(runStart.store[k].history, store[k].history)

LastEntry(p) == p.history[Len(p.history)]

\* C5: a forced run with nothing interleaved checks every record of the store once:
\* n records give n history appends, one per record, Error exactly for the failed
\* checks, and Available / Unavailable as the response said for the others.
C5_ForcedRunTally ==
    (RunDone /\ runStart.force) =>
        LET n == Len(runStart.store)
        IN  /\ Len(checked) = n
            /\ Len(store) = n
            /\ \A k \in 1..n : Cardinality({ j \in 1..n : checked[j].oid = k }) = 1
            /\ \A j \in 1..n :
                  LET k == checked[j].oid
                      resp == checked[j].resp
                  IN  /\ OneAppend(k)
                      /\ LastEntry(store[k]).status = store[k].lastStatus
                      /\ Fails(resp) <=> store[k].lastStatus = "Error"
                      /\ resp = "true" => store[k].lastStatus = "Available"
                      /\ resp = "false" => store[k].lastStatus = "Unavailable"
                      /\ store[k].lastStatus \in {"Available", "Unavailable", "Error"}

\* C5's case: a forced run over several records has finished with exactly one failure
C5_Witness ==
    /\ RunDone /\ runStart.force
    /\ Len(checked) >= 2
    /\ Cardinality({ j \in 1..Len(checked) : Fails(checked[j].resp) }) = 1

\* C6: the reports of a run are (1, n), (2, n), ... in that order, n being the number
\* of records selected when the run began; each report follows a completed check whose
\* result is already in the persisted array, and a finished run has reported (n, n).
C6_ProgressReports ==
    LET n == Len(SelectedAtStart)
    IN  /\ reports = [j \in 1..Len(reports) |-> <<j, n>>]
        /\ Len(reports) = Len(checked)
        /\ Len(reports) <= n
        /\ \A j \in 1..Len(reports) : OneAppend(checked[j].oid)
        /\ RunDone => Len(reports) = n

\* C6's case: a run over two records is between its first and its second check
C6_Witness ==
    /\ runPc = "sleep"
    /\ reports = << <<1, 2>> >>

\* C7: a failed check does not abort the run: the failure is recorded on its record as
\* status Error with a note, and the run ends only when every selected record has been
\* checked and persisted.
C7_FailureDoesNotAbort ==
    /\ \A j \in 1..Len(checked) :
          LET k == checked[j].oid
          IN  Fails(checked[j].resp) =>
                 /\ OneAppend(k)
                 /\ store[k].lastStatus = "Error"
                 /\ LastEntry(store[k]).status = "Error"
                 /\ LastEntry(store[k]).note # NoNote
    /\ runPc = "idle" => Len(checked) \in {0, Len(SelectedAtStart)}
    /\ runPc # "idle" => Len(checked) < Len(SelectedAtStart)

\* C7's case: the first check of a finished run failed and a later one succeeded
C7_Witness ==
    /\ RunDone
    /\ Len(checked) >= 2
    /\ Fails(checked[1].resp)
    /\ ~Fails(checked[2].resp)

\* the calendar month and year of two instants agree
SameMonth(t, c) ==
    Timeline[t].month = Timeline[c].month /\ Timeline[t].year = Timeline[c].year

HoursBetween(t, c) == Timeline[c].h - Timeline[t].h

\* C8: isDue holds exactly for a record never checked, a record whose last-check
\* timestamp does not parse, and a record last checked in another calendar month or
\* year than the current one; the time elapsed since the check plays no part.
C8_DuePolicy ==
    \A i \in 1..Len(store) : \A c \in Instants :
        LET ts == store[i].lastCheckedUtc
        IN  isDue(store[i], c) <=>
               \/ ts = NullTs
               \/ ts \notin Instants
               \/ Timeline[ts].month # Timeline[c].month
               \/ Timeline[ts].year # Timeline[c].year

\* C8's case: the store holds a record checked on 31 January, due 12 hours later on
\* 1 February, and a record checked on 1 February, not due 12 hours later that day
\* and due on 1 February of the next year
C8_Witness ==
    \E i, j \in 1..Len(store) :
        /\ store[i].lastCheckedUtc = 1 /\ store[j].lastCheckedUtc = 2
        /\ isDue(store[i], 2) /\ HoursBetween(1, 2) = 12
        /\ ~isDue(store[j], 3) /\ HoursBetween(2, 3) = 12
        /\ isDue(store[j], 4) /\ Timeline[2].month = Timeline[4].month

\* C9: once a check of a record has completed (with any outcome), the record is not
\* due at any later instant of that calendar month and is due at every instant of a
\* later month.
C9_FreshUntilNextMonth ==
    \A i \in 1..Len(store) :
        store[i].history # <<>> =>
            LET t == LastEntry(store[i]).checkedUtc
            IN  \A c \in Instants :
                   c >= t => (isDue(store[i], c) <=> ~SameMonth(t, c))

\* C9's case: a record checked on the last day of January was due on the first of
\* February, a run without force checked it then, and later that day it is not due
C9_Witness ==
    \E i \in 1..Len(store) :
        /\ Len(store[i].history) = 2
        /\ store[i].history[1].checkedUtc = 1
        /\ Timeline[1].day = 31
        /\ store[i].history[2].checkedUtc = 2
        /\ Timeline[2].day = 1
        /\ ~runStart.force /\ runStart.now = 2
        /\ now = 3 /\ Timeline[3].day = 1
        /\ ~isDue(store[i], now)

\* C10: a run processes exactly the records selected when it began: every record of
\* the store with force, the records for which isDue holds without; it processes them
\* in that order, and it has processed all of them when it ends.
C10_RunProcessesSelection ==
    /\ IsPrefix(CheckedOids, SelectedAtStart)
    /\ runPc = "idle" => CheckedOids = SelectedAtStart

\* C10's case: a run without force has finished, having left a record alone
C10_Witness ==
    /\ RunDone
    /\ ~runStart.force
    /\ Len(checked) < Len(runStart.store)

\* C11: a run checks its records one at a time, in the order of the store when it
\* began (sorted by plateText): the checks issued so far are the first of the
\* selection, in order; all but at most the last one issued have settled; and every
\* one that settled has its result in the persisted array, so that a check is issued
\* only when the record before it has been recorded and saved.
C11_OneAtATimeInOrder ==
    /\ IsPrefix(runIssued, SelectedAtStart)
    /\ IsPrefix(CheckedOids, runIssued)
    /\ Len(runIssued) - Len(checked) = (IF runPc = "check" THEN 1 ELSE 0)
    /\ \A j \in 1..(Len(runIssued) - 1) :
          Cmp(runStart.store[runIssued[j]], runStart.store[runIssued[j + 1]]) <= 0
    /\ \A j \in 1..Len(checked) : OneAppend(checked[j].oid)

\* C11's case: the first record of a run is recorded and the check of the second is
\* outstanding
C11_Witness ==
    /\ runPc = "check"
    /\ Len(runIssued) = 2
    /\ Len(checked) = 1
    /\ OneAppend(runIssued[1])

\* C12: a run that has started ends, and it ends completed: it leaves its loop only
\* when every record it selected has been checked, and when every request comes back
\* and every delay elapses it does leave it.
C12_RunCompletes ==
    /\ [][(runPc # "idle" /\ runPc' = "idle") => CheckedOids' = SelectedAtStart']_vars
    /\ (runPc # "idle") ~> (runPc = "idle" /\ CheckedOids = SelectedAtStart)

\* C12's case: a run over two records has gone through its delay and completed
C12_Witness ==
    /\ runPc = "idle"
    /\ ~btnDisabled
    /\ runStatus = Text("Done")
    /\ reports = << <<1, 2>>, <<2, 2>> >>

\* the result of the j-th check the latest run completed is in the array st: the
\* record has one history entry more than when the run began, and that entry, its
\* lastStatus and its lastCheckedUtc say what the check gave and when
Recorded(st, j) ==
    LET k == checked[j].oid
        resp == checked[j].resp
    IN  /\ k \in 1..Len(st)
        /\ mkKey(st[k]) = mkKey(runStart.store[k])
        /\ st[k].history # <<>>
        /\ SubSeq(st[k].history, 1, Len(st[k].history) - 1) = runStart.store[k].history
        /\ LastEntry(st[k]).status = st[k].lastStatus
        /\ LastEntry(st[k]).checkedUtc = st[k].lastCheckedUtc
        /\ st[k].lastCheckedUtc \in runStart.now..now
        /\ st[k].lastStatus =
              (IF Fails(resp) THEN "Error"
               ELSE IF resp = "true" THEN "Available" ELSE "Unavailable")

\* C13: when the page is closed at any moment of a run, what localStorage holds
\* afterwards (and the page loads when it is opened again) has the result of every
\* record the run had completed: status, timestamp and history entry.
C13_PartialProgressDurable ==
    [][Reload => \A j \in 1..Len(checked) : Recorded(store', j)]_vars

\* C13's case: the page was closed between the first and the second record of a run
\* over two records checked in January; opened again in February, it finds the first
\* record as the interrupted run left it and starts on the second
C13_Witness ==
    /\ runPc = "check"
    /\ checked = <<>>
    /\ runStart.store = store
    /\ runStart.now = 2
    /\ Len(store) = 2
    /\ store[1].lastCheckedUtc = 2
    /\ Len(store[1].history) = 2
    /\ store[2].lastCheckedUtc = 1
    /\ runIssued = <<2>>

\* C14: a run that selects nothing is over at once: the step that starts it leaves
\* the persisted array as it was, issues no request, does not enter the loop or its
\* delay, makes no progress report, and says that everything is up to date.
C14_EmptyRunIsNoOp ==
    [][\A force \in BOOLEAN :
          (StartRun(force) /\ Len(Selected(item, force, now)) = 0) =>
              /\ store' = store
              /\ issued' = issued
              /\ runIssued' = <<>>
              /\ runPc' = "idle"
              /\ reports' = <<>>
              /\ runStatus' = Text("Up to date")
              /\ btnDisabled' = btnDisabled]_vars

\* C14's case: on 1 February, later in the day on which its only record was checked,
\* a run without force was started over a store where nothing is due
C14_Witness ==
    /\ runStart.now = 3
    /\ ~runStart.force
    /\ runStart.store # <<>>
    /\ runStart.store = store
    /\ \A i \in 1..Len(store) : store[i].lastCheckedUtc = 2
    /\ runPc = "idle"
    /\ checked = <<>>
    /\ runStatus = Text("Up to date")

----------------------------------------------------------------------------
(* Properties of the handlers together *)

\* C15: a record leaves the persisted array only by a delete or by an import: in
\* every other step (an add or a single-plate refresh settling, a step of a run, a
\* reload) each key the array held is a key it still holds; so a record added
\* while a run is in progress is there when the run has completed.
C15_RemovedOnlyByDelete ==
    [][( /\ ~(\E key \in BoardKeys \cup {NoSuchKey} : Delete(key))
         /\ ~(\E file \in ImportPayloads : Import(file)) )
       => KeysOf(store) \subseteq KeysOf(store')]_vars

----------------------------------------------------------------------------
(* Properties of the add-plate dialog and of normalizePlateText *)

\* C16: a submit of text that normalizes to the empty text changes nothing: no
\* handler is left awaiting a check, no request is issued, the persisted array is as
\* it was; a submit of any other text is accepted: it does issue its check.
C16_EmptyTextRejected ==
    \A st \in StateValues :
        IF Falsy(normalizePlateText(typed))
        THEN ~ENABLED <<AddSubmit(typed, st)>>_vars
        ELSE issued < MaxChecks =>
                ENABLED (AddSubmit(typed, st) /\ issued' = issued + 1 /\ store' = store)

\* C16's case: a text was submitted and accepted and its check is awaited; the field
\* has been emptied since, and a submit now is one of the empty text
C16_Witness ==
    /\ typed = Empty
    /\ pending # <<>>
    /\ pending[1].rec.plateText = <<"A", "1">>
    /\ issued < MaxChecks

\* C17: the entry a submit of text r builds, and the record the store holds once its
\* check has settled, have plateText = normalizePlateText(r).
C17_AddStoresNormalizedText ==
    [][ /\ \A st \in StateValues :
             (AddSubmit(typed, st) /\ pending' # pending) =>
                 pending'[Len(pending')].rec.plateText = normalizePlateText(typed)
        /\ \A k \in 1..Len(pending), resp \in Replies :
             PendingChecked(k, resp) =>
                 \E j \in 1..Len(store') :
                     /\ store'[j].plateText = pending[k].rec.plateText
                     /\ store'[j].history # <<>> ]_vars

\* C17's case: a text of nine characters with lower-case letters, the letter o and a
\* hyphen was added, and the store holds its first seven normalized characters
C17_Witness ==
    /\ typed = PadText \o <<"a", "1">>
    /\ \E j \in 1..Len(store) :
          /\ store[j].plateText = <<"B", "0", "A", "1", "0", "G", "A">>
          /\ store[j].lastCheckedUtc = now

\* C18: normalizePlateText gives a text for every input (the empty text for an
\* absent one); normalizing its result again gives the same text; the result has at
\* most 7 characters, all of them in [A-Z0-9].
C18_NormalizeIdempotent ==
    LET n == normalizePlateText(typed)
    IN  /\ normalizePlateText(n) = n
        /\ Len(n) <= 7
        /\ \A i \in 1..Len(n) : IsAZ09(n[i])
        /\ normalizePlateText(Undefined) = Empty

\* C18's case: the input handler has normalized a text of more than seven characters
\* that held the letter o
C18_Witness ==
    /\ typed = <<"B", "0", "A", "1", "0", "G", "0">>
    /\ normalizePlateText(typed) = typed

----------------------------------------------------------------------------
(* Properties of mkKey *)

\* C19: markChecked leaves the derived key of a record as it was, whatever the status,
\* the note and the time; so every record of the store a run began with is in the
\* persisted array under the same key at every moment of the run and after it, and
\* so is every object the run holds.
C19_KeyStableUnderChecks ==
    /\ \A i \in 1..Len(store) :
          \A status \in {"Available", "Unavailable", "Error"}, c \in Instants :
              mkKey(markChecked(store[i], status, "HTTP", c)) = mkKey(store[i])
    /\ Len(store) = Len(runStart.store)
    /\ \A k \in 1..Len(store) : mkKey(store[k]) = mkKey(runStart.store[k])
    /\ \A k \in 1..Len(runAll) :
          mkKey(Rec(runAll[k])) = mkKey(runStart.store[runAll[k].oid])

\* C19's case: a finished run has changed the status of a record, which has its key
\* of before the run
C19_Witness ==
    /\ RunDone
    /\ \E k \in 1..Len(store) :
          /\ store[k].lastStatus # runStart.store[k].lastStatus
          /\ store[k].lastCheckedUtc # runStart.store[k].lastCheckedUtc
          /\ Len(store[k].history) = 2
          /\ mkKey(store[k]) = mkKey(runStart.store[k])

\* the identity of a record: its plateText uppercased, its jurisdiction (ID when
\* absent) and its five facets (each with its default when absent)
Identity(p) ==
    << ToUpperCase(OrElse(p.plateText, Empty)),
       OrElse(p.state, ID),
       OrElse(p.selectedVehicleType, PassengerVehicle),
       OrElse(p.selectedKindOfPlate, Personalized),
       OrElse(p.selectedPlateProgram, Select),
       OrElse(p.selectedPlateProgramID, Empty),
       OrElse(p.selectedPlateProgramSubCategory, Select) >>

\* C20: two records of the store have the same derived key exactly when they have
\* the same identity, whatever characters their facets hold.
C20_KeyIffIdentity ==
    \A i, j \in 1..Len(store) :
        mkKey(store[i]) = mkKey(store[j]) <=> Identity(store[i]) = Identity(store[j])

----------------------------------------------------------------------------
(* Properties of the storage functions *)

\* the properties of a record that hold text (any of them can be absent)
TextFields ==
    { "plateText", "state", "selectedVehicleType", "selectedKindOfPlate",
      "selectedPlateProgram", "selectedPlateProgramID", "selectedPlateProgramSubCategory" }

\* m is old with every property that entry has taken from entry
MergedOnto(m, old, entry) ==
    /\ \A f \in TextFields : m[f] = IF entry[f] = Undefined THEN old[f] ELSE entry[f]
    /\ m.lastStatus = entry.lastStatus
    /\ m.lastCheckedUtc = entry.lastCheckedUtc
    /\ m.history = entry.history

\* C21: upsertPlate(entry): when a record of the store has entry's key, that record
\* is replaced, at its position, by the merge of itself and entry in which entry's
\* properties win, and the store keeps its length; otherwise the store gains exactly
\* one record, entry; every other record is as it was, and the result is what is
\* persisted when upsertPlate returns.
C21_UpsertContract ==
    [][\A entry \in UpsertEntries :
          Upsert(entry) =>
            LET hit == { i \in 1..Len(store) : mkKey(store[i]) = mkKey(entry) }
            IN  IF hit # {}
                THEN /\ Len(store') = Len(store)
                     /\ \E i \in hit :
                           /\ MergedOnto(store'[i], store[i], entry)
                           /\ \A j \in 1..Len(store) : j # i => store'[j] = store[j]
                ELSE /\ Len(store') = Len(store) + 1
                     /\ \E k \in 1..Len(store') :
                           /\ store'[k] = entry
                           /\ Remove(store', k) = store]_vars

\* C21's case: upserts have appended records, and an entry of plate A written in
\* upper case has been merged onto the record added as "a" with no `state`, which
\* stands where it stood, before the record of the same plate in California
C21_Witness ==
    /\ Len(store) = 3
    /\ store[1].plateText = <<"A">>
    /\ store[1].state = ID
    /\ store[1].lastStatus = "Available"
    /\ store[2].plateText = <<"a">>
    /\ store[2].state = CA
    /\ store[3].plateText = <<"o">>

\* C22: deleteByKey(key) removes the record whose key is key and leaves every other
\* record as it was, at its place among the others; when no record has that key the
\* call goes through and the persisted array is what it was.
C22_DeleteContract ==
    [][\A key \in BoardKeys \cup {NoSuchKey} :
          Delete(key) =>
            LET hit == { i \in 1..Len(store) : mkKey(store[i]) = key }
            IN  IF hit = {}
                THEN store' = store
                ELSE /\ Len(store') = Len(store) - 1
                     /\ \E i \in hit : store' = Remove(store, i)]_vars

\* C22's case: the record of plate A in Idaho the store began with has been deleted,
\* and the records added beside it are still there
C22_Witness ==
    /\ Len(store) >= 2
    /\ mkKey(NewEntry(<<"A">>, ID)) \notin KeysOf(store)
    /\ \E i \in 1..Len(store) : store[i].plateText = <<"a">> /\ store[i].state = CA

\* C23: loadPlates() never fails: when nothing is persisted, or what is persisted is
\* not JSON, or is the JSON of something that is not an array, it returns the empty
\* array; otherwise it returns the array that the persisted text decodes to.
C23_LoadNeverFails ==
    /\ item.kind \in {"null", "empty", "garbage", "object"} => store = <<>>
    /\ item.kind = "array" => store = item.arr
    /\ BoardKeys = KeysOf(IF item.kind = "array" THEN item.arr ELSE <<>>)

\* C23's case: the page loaded records, localStorage was then left with a text that
\* is not JSON, and loadPlates() now returns the empty array
C23_Witness ==
    /\ item.kind = "garbage"
    /\ runStart.store # <<>>
    /\ store = <<>>

\* C24: migrate is idempotent on what is persisted: once it has run, a further run
\* finds nothing to change, performs no write, and leaves what is persisted as the
\* first run left it.
C24_MigrateIdempotent ==
    /\ ~migrateChanged(loadPlates(item))
    /\ migrate(item) = item

\* C24's case: the first run rewrote the texts "o" and "a-o" (which moved the
\* records), and the page has been loaded again since
C24_Witness ==
    /\ Len(store) = 2
    /\ store[1].plateText = <<"0">>
    /\ store[2].plateText = <<"A", "0">>
    /\ store[2].state = ID
    /\ runStart.now > 1

----------------------------------------------------------------------------
(* Properties of checkAvailability *)

\* the jurisdictions the page has a checker for (an absent one counts as Idaho)
Supported(p) == OrElse(p.state, ID) \in { ID, CA }

\* C25: checkAvailability(p) throws, and gives no status, when the response is not
\* 2xx, when its body is not JSON, or when the record's jurisdiction has no checker:
\* every such check of a run is recorded as Error with a note, and the request for a
\* record of an unsupported jurisdiction goes to no other jurisdiction's endpoint.
C25_UnsupportedRaises ==
    \A j \in 1..Len(checked) :
        LET k == checked[j].oid
            p == runStart.store[k]
        IN  /\ (checked[j].resp \in {"http", "nonjson"} \/ ~Supported(p)) =>
                  /\ store[k].lastStatus = "Error"
                  /\ LastEntry(store[k]).status = "Error"
                  /\ LastEntry(store[k]).note # NoNote
            /\ ~Supported(p) => checked[j].via \notin {"ID_ENDPOINT", "CA_PROXY"}

\* C26: checkAvailability(p) sends a record of California to the California checker
\* and a record of Idaho, or with no jurisdiction, to the Idaho checker; a 2xx JSON
\* response gives Available when its Available field is true and Unavailable when it
\* is false, and a 2xx JSON response without that field gives the plate neither status.
C26_RoutingAndStatus ==
    \A j \in 1..Len(checked) :
        LET k == checked[j].oid
            p == runStart.store[k]
            resp == checked[j].resp
        IN  /\ OrElse(p.state, ID) = CA => checked[j].via = "CA_PROXY"
            /\ OrElse(p.state, ID) = ID => checked[j].via = "ID_ENDPOINT"
            /\ resp = "true" => store[k].lastStatus = "Available"
            /\ resp = "false" => store[k].lastStatus = "Unavailable"
            /\ resp = "missing" => store[k].lastStatus \notin {"Available", "Unavailable"}

----------------------------------------------------------------------------
(* Properties of import and export *)

\* a record as the claim has an import store it: plateText normalized, jurisdiction
\* and the five facets at their defaults where absent
ImportedAs(p) ==
    [p EXCEPT
        !.plateText = normalizePlateText(@),
        !.state = IF @ \in {Undefined, Empty} THEN ID ELSE @,
        !.selectedVehicleType = IF @ \in {Undefined, Empty} THEN PassengerVehicle ELSE @,
        !.selectedKindOfPlate = IF @ \in {Undefined, Empty} THEN Personalized ELSE @,
        !.selectedPlateProgram = IF @ \in {Undefined, Empty} THEN Select ELSE @,
        !.selectedPlateProgramID = IF @ \in {Undefined, Empty} THEN Empty ELSE @,
        !.selectedPlateProgramSubCategory = IF @ \in {Undefined, Empty} THEN Select ELSE @]

\* the arrays a and b hold the same records, each as many times
SameRecords(a, b) ==
    /\ Len(a) = Len(b)
    /\ \A i \in 1..Len(a) :
          Cardinality({ j \in 1..Len(a) : a[j] = a[i] })
              = Cardinality({ j \in 1..Len(b) : b[j] = a[i] })

\* C27: the import of a file that holds an array of records replaces what is
\* persisted with exactly the records of the file, each with its plateText normalized
\* and with jurisdiction and the five facets at their defaults where the file left
\* them out; the import of any other file leaves what is persisted as it was.
C27_ImportContract ==
    [][\A file \in ImportFiles :
          Import(file) =>
            IF file.kind = "array"
            THEN SameRecords(store', [i \in 1..Len(file.arr) |-> ImportedAs(file.arr[i])])
            ELSE item' = item]_vars
\* C28: export then import round-trips: in every store that adds, single-plate
\* refreshes, refresh runs and deletes lead to, importing the file that export writes
\* leaves the persisted records equal to what they were before the export.
C28_ExportImportRoundTrip ==
    loadPlates(importFile(item, exportBlob(item))) = store

\* C28's case: the store holds two records that were added and checked, one of
\* California whose check failed and one of Idaho found available
C28_Witness ==
    /\ Len(store) = 2
    /\ \E i, j \in 1..Len(store) :
          /\ store[i].state = CA
          /\ store[i].lastStatus = "Error"
          /\ Len(store[i].history) = 1
          /\ store[j].state = ID
          /\ store[j].lastStatus = "Available"

\* the characters of a canonical plate text: upper-case letters other than O, digits
CanonicalChars == { "A", "B", "G", "S", "W", "0", "1" }

\* C29: whatever the handlers did, migrate and import included, every record of the
\* persisted array has a plateText of 1 to 7 characters, each an upper-case letter
\* other than O or a digit; none is persisted with its plateText empty or absent.
C29_StoredTextCanonical ==
    \A i \in 1..Len(store) :
        /\ store[i].plateText # Undefined
        /\ Len(store[i].plateText) \in 1..7
        /\ \A c \in 1..Len(store[i].plateText) : store[i].plateText[c] \in CanonicalChars

----------------------------------------------------------------------------
(* Properties of the requests of a refresh run *)

\* C30: a run that selected n records issues exactly n requests, one for each
\* selected record, in the order of the selection: at every moment the requests
\* issued are the first of the selection in order, none for a record twice or for a
\* record that was not selected, and a run that has ended has issued all n.
C30_OneRequestPerSelected ==
    LET n == Len(SelectedAtStart)
    IN  /\ Len(runIssued) <= n
        /\ runIssued = SubSeq(SelectedAtStart, 1, Len(runIssued))
        /\ \A a, b \in 1..Len(runIssued) : a # b => runIssued[a] # runIssued[b]
        /\ \A a \in 1..Len(runIssued) :
              \E b \in 1..n : SelectedAtStart[b] = runIssued[a]
        /\ runPc = "idle" => Len(runIssued) = n

\* C30's case: a run over two selected records has ended with two requests issued,
\* the first for the first record
C30_Witness ==
    /\ RunDone
    /\ Len(SelectedAtStart) = 2
    /\ runIssued = <<1, 2>>
    /\ issued = 2

----------------------------------------------------------------------------
(* Properties of a refresh run as a whole *)

\* the statuses of the history of a record, in order
Statuses(p) == [i \in 1..Len(p.history) |-> p.history[i].status]

\* the status a response gives
StatusOf(resp) ==
    IF Fails(resp) THEN "Error" ELSE IF resp = "true" THEN "Available" ELSE "Unavailable"

\* the responses the latest run has received, in order
CheckedResps == [j \in 1..Len(checked) |-> checked[j].resp]

\* the statuses a run leaves on the record at position k: those it had when the run
\* began (in the store `start`), then the status of the response to its check if it
\* is among the first records of the selection `sel` that the responses `resps` answer
StatusesAfter(start, sel, resps, k) ==
    LET js == { j \in 1..Len(resps) : sel[j] = k }
    IN  IF js = {} THEN Statuses(start[k])
        ELSE Append(Statuses(start[k]), StatusOf(resps[CHOOSE j \in js : TRUE]))

\* C31: a refresh run is deterministic: the order in which it checks the records and
\* the statuses it leaves (lastStatus and the statuses of history) are a function of
\* the store, the clock and the force flag when it began and of the responses its
\* checks received, whatever the time at which each response came.
C31_RunDeterministic ==
    LET sel == SelectedAtStart
    IN  /\ Len(checked) <= Len(sel)
        /\ CheckedOids = SubSeq(sel, 1, Len(checked))
        /\ Len(store) = Len(runStart.store)
        /\ \A k \in 1..Len(store) :
              /\ Statuses(store[k]) = StatusesAfter(runStart.store, sel, CheckedResps, k)
              /\ store[k].lastStatus =
                    (IF \E j \in 1..Len(checked) : sel[j] = k
                     THEN StatusOf(checked[CHOOSE j \in 1..Len(checked) : sel[j] = k].resp)
                     ELSE runStart.store[k].lastStatus)

\* C31's case: a run over two records has ended, the clock having moved on between
\* its two checks
C31_Witness ==
    /\ RunDone
    /\ Len(checked) = 2
    /\ store[checked[1].oid].lastCheckedUtc < store[checked[2].oid].lastCheckedUtc
    /\ store[checked[2].oid].lastCheckedUtc = Len(Timeline)
    /\ store[checked[2].oid].lastStatus = "Available"

----------------------------------------------------------------------------
(* Properties of migrate *)

\* the record carries its jurisdiction and the five facets
HasDefaults(p) ==
    /\ ~Falsy(p.state)
    /\ ~Falsy(p.selectedVehicleType)
    /\ ~Falsy(p.selectedKindOfPlate)
    /\ ~Falsy(p.selectedPlateProgram)
    /\ p.selectedPlateProgramID # Undefined
    /\ ~Falsy(p.selectedPlateProgramSubCategory)

\* C32: migrate persists what it rewrote whenever it changed anything in a record, a
\* missing jurisdiction or facet as much as a non-canonical plateText: once the page
\* has loaded, every persisted record has its canonical plateText, its jurisdiction
\* and the five facets.
C32_MigratePersistsDefaults ==
    \A i \in 1..Len(store) :
        /\ HasDefaults(store[i])
        /\ store[i].plateText = normalizePlateText(store[i].plateText)


----------------------------------------------------------------------------
(* Properties of the delay between the requests of a run *)

\* C33: a run over n selected records waits its delay exactly n-1 times.  A delay is
\* begun only after a record that is not the last has been persisted and reported:
\* while the run sleeps, between 1 and n-1 records are done, the one just checked
\* is persisted with its new history entry, the last report is (done, n), and one
\* delay has been begun per record done.  While a check is awaited one delay has
\* been begun per record done before it, and a finished run has begun n-1 delays
\* and reported its completion without being in a delay after the last record.
C33_DelayBetweenRecords ==
    LET n == Len(SelectedAtStart)
        i == Len(checked)
    IN  /\ runPc = "sleep" =>
              /\ i \in 1..(n - 1)
              /\ runSleeps = i
              /\ OneAppend(checked[i].oid)
              /\ Len(reports) = i
              /\ reports[i] = <<i, n>>
              /\ runStatus = Progress(i, n)
        /\ runPc = "check" => runSleeps = i /\ i < n
        /\ RunDone =>
              /\ i = n
              /\ runSleeps = n - 1
              /\ runStatus = Text("Done")
              /\ reports[n] = <<n, n>>
        /\ i = n => runPc = "idle"

\* C33's case: a run over two records has finished: it slept once, between the
\* first record and the second
C33_Witness ==
    /\ RunDone
    /\ Len(checked) = 2
    /\ Len(SelectedAtStart) = 2
    /\ runSleeps = 1
    /\ runIssued = <<1, 2>>


----------------------------------------------------------------------------
(* Properties of a delete while checks are in flight *)

\* C34: a deleted record stays deleted: a key that is not in the persisted array (so
\* also one that deleteByKey removed) is not brought back by the check of a refresh
\* run or of a single-plate refresh settling, whenever that check was started; only
\* an add or an import submits an identity.
C34_DeletedStaysDeleted ==
    [][( (\E resp \in Responses : RunChecked(resp))
         \/ (\E k \in 1..Len(pending), resp \in Responses :
                pending[k].kind = "single" /\ PendingChecked(k, resp)) )
       => KeysOf(store') \subseteq KeysOf(store)]_vars


----------------------------------------------------------------------------
(* Properties of a single-plate refresh overlapping a run *)

\* the history persisted for the key, <<>> when no record has the key
HistoryOfKey(list, key) ==
    IF key \in KeysOf(list) THEN list[IndexOfKey(list, key)].history ELSE <<>>

\* C35: when a single-plate refresh and a run both complete a check of the same
\* record while overlapping, both history entries are persisted.  The refresh
\* settling after the run's check of the record it read before that check, and the
\* run's check settling after a check that added one entry to the record since the
\* run read it, each leave a history two entries longer than the one both read.
C35_OverlappingChecksBothKept ==
    [][ /\ \A k \in 1..Len(pending), resp \in Responses :
              LET p == pending[k].rec
              IN  ( /\ pending[k].kind = "single"
                    /\ PendingChecked(k, resp)
                    /\ \E j \in 1..Len(checked) :
                          /\ mkKey(runStart.store[checked[j].oid]) = mkKey(p)
                          /\ runStart.store[checked[j].oid].history = p.history
                    /\ Len(HistoryOfKey(store, mkKey(p))) = Len(p.history) + 1 )
                  => Len(HistoryOfKey(store', mkKey(p))) = Len(p.history) + 2
        /\ \A resp \in Responses :
              ( /\ RunChecked(resp)
                /\ LET p == Rec(runAll[TargetPos(runAll, runTargets, runForce, runI)])
                   IN  Len(HistoryOfKey(store, mkKey(p))) = Len(p.history) + 1 )
              => LET p == Rec(runAll[TargetPos(runAll, runTargets, runForce, runI)])
                 IN  Len(HistoryOfKey(store', mkKey(p))) = Len(p.history) + 2 ]_vars


----------------------------------------------------------------------------
(* Properties of the control that starts a run *)

\* C36: at most one run is in progress.  Before and after every step #refresh is
\* disabled exactly while a run is in its loop (awaiting a check or sleeping), and
\* a step in which #cfm_due or #cfm_force starts refreshDue is taken only while no
\* run is in its loop.
C36_OneRunAtATime ==
    [][ /\ btnDisabled <=> runPc # "idle"
        /\ btnDisabled' <=> runPc' # "idle"
        /\ \A force \in BOOLEAN : StartRun(force) => runPc = "idle" ]_vars

\* C36's case: a forced run started from the dialog is between two of its records,
\* with the control disabled
C36_Witness ==
    /\ runPc = "sleep"
    /\ runStart.force
    /\ runStart.now > 1
    /\ btnDisabled


----------------------------------------------------------------------------
(* Properties of records made by add-plate *)

\* C37: every persisted record that add-plate made and only checks changed carries
\* in lastStatus and lastCheckedUtc the status and checkedUtc of the last entry of
\* its history, and has no lastCheckedUtc exactly when its history is empty.
C37_LastIsLastOfHistory ==
    \A i \in 1..Len(store) :
        LET p == store[i]
            h == p.history
        IN  /\ (p.lastCheckedUtc = NullTs) <=> (h = <<>>)
            /\ h # <<>> =>
                  /\ p.lastStatus = h[Len(h)].status
                  /\ p.lastCheckedUtc = h[Len(h)].checkedUtc

\* C37's case: a record added and later checked again at another time and with
\* another outcome shows the later check
C37_Witness ==
    \E i \in 1..Len(store) :
        LET h == store[i].history
        IN  /\ Len(h) = 2
            /\ h[1].status # h[2].status
            /\ h[1].checkedUtc < h[2].checkedUtc
            /\ store[i].lastStatus = h[2].status
            /\ store[i].lastCheckedUtc = h[2].checkedUtc


----------------------------------------------------------------------------
(* Properties of what a run leaves alone *)

\* C38: a run with nothing interleaved changes only lastStatus, lastCheckedUtc and
\* history, and only of selected records: during the run and after it the persisted
\* array has as many records as when the run began, each position holds the record
\* it held then (so the order and the derived keys are the same) with every other
\* field as it was, and a record that was not selected is the same in every field.
C38_RunChangesOnlyCheckFields ==
    /\ Len(store) = Len(runStart.store)
    /\ \A k \in 1..Len(store) :
          LET before == runStart.store[k]
              after == store[k]
          IN  /\ [after EXCEPT !.lastStatus = before.lastStatus,
                               !.lastCheckedUtc = before.lastCheckedUtc,
                               !.history = before.history] = before
              /\ mkKey(after) = mkKey(before)
              /\ (\A j \in 1..Len(SelectedAtStart) : SelectedAtStart[j] # k)
                    => after = before

\* C38's case: a run without force has finished; it checked one record of two, which
\* has a new history entry, and left the other as it was
C38_Witness ==
    /\ RunDone
    /\ ~runStart.force
    /\ Len(store) = 2
    /\ Len(checked) = 1
    /\ OneAppend(checked[1].oid)
    /\ store[checked[1].oid].lastStatus # runStart.store[checked[1].oid].lastStatus
    /\ \E k \in 1..2 : k # checked[1].oid /\ store[k] = runStart.store[k]


----------------------------------------------------------------------------
(* Properties of the store after a run without force *)

\* when the latest run completed: the time of its last check
RunDoneAt == LastEntry(store[checked[Len(checked)].oid]).checkedUtc

\* no record is due and refreshDue({force:false}) would select nothing
NothingDue ==
    /\ \A i \in 1..Len(store) : ~isDue(store[i], now)
    /\ Len(Selected(item, FALSE, now)) = 0

\* C39 as claimed: after a run without force has completed with nothing interleaved,
\* and while the clock is in the calendar month in which it completed, no record of
\* the store is due and a second run without force selects nothing.
C39_NothingDueAfterRun ==
    (RunDone /\ ~runStart.force /\ SameMonth(RunDoneAt, now)) => NothingDue

\* C39 as the code has it: the same for a run without force that began in the
\* calendar month in which it completed; a run that the turn of the month
\* interrupts leaves the records it checked, or did not select, in the old month due.
C39_NothingDueAfterRunInOneMonth ==
    ( /\ RunDone
      /\ ~runStart.force
      /\ SameMonth(runStart.now, RunDoneAt)
      /\ SameMonth(RunDoneAt, now) ) => NothingDue

\* C39's case: a run without force began and completed on 1 February, one of its
\* checks failed, and later that day nothing is due
C39_Witness ==
    /\ RunDone
    /\ ~runStart.force
    /\ runStart.now = 2
    /\ RunDoneAt = 2
    /\ now = 3
    /\ \E j \in 1..Len(checked) : store[checked[j].oid].lastStatus = "Error"
    /\ NothingDue


----------------------------------------------------------------------------
(* Properties of the single-jurisdiction version *)

\* due as the description has it: never checked, a last-check time that cannot be
\* parsed, or at least 24 hours since the last check
DueAsDescribed(p, c) ==
    \/ p.lastCheckedUtc = NullTs
    \/ p.lastCheckedUtc \notin Instants
    \/ HoursBetween(p.lastCheckedUtc, c) >= 24

\* the run started at startup is over a store that is not empty and checks, in the
\* order of the store, exactly the records that were due as described
LegacyRunSelection ==
    LET n == Len(runStart.store)
        every == [k \in 1..n |-> k]
        due(k) == DueAsDescribed(runStart.store[k], runStart.now)
    IN  /\ n > 0
        /\ ~runStart.force
        /\ IsPrefix(runIssued, SelectSeq(every, due))
        /\ runPc = "idle" => runIssued = SelectSeq(every, due)

\* the key of a record without its jurisdiction
FacetsOnly(p) ==
    Join(<< ToUpperCase(OrElse(p.plateText, Empty)),
            OrElse(p.selectedVehicleType, PassengerVehicle),
            OrElse(p.selectedKindOfPlate, Personalized),
            OrElse(p.selectedPlateProgram, Select),
            OrElse(p.selectedPlateProgramID, Empty),
            OrElse(p.selectedPlateProgramSubCategory, Select) >>)

\* C40: in the single-jurisdiction version a record is due exactly when it was never
\* checked, its last-check time cannot be parsed, or at least 24 hours have passed
\* since its last check, and the run started at startup selects by that rule; a
\* delete removes every record with the facets of the key whatever its `state`; and
\* startup over an empty store persists the one default record SWAG and starts the
\* run without force on it, while startup over a store with records adds none.
C40_LegacyVariant ==
    [][ /\ LegacyRunSelection
        /\ LegacyRunSelection'
        /\ \A i \in 1..Len(store), c \in Instants :
              isDue_legacy(store[i], c) <=> DueAsDescribed(store[i], c)
        /\ \A i \in 1..Len(store) :
              LET key == mkKey_legacy(store[i])
                  other(p) == FacetsOnly(p) # key
              IN  Delete_legacy(key) => store' = SelectSeq(store, other)
        /\ Reload_legacy =>
              IF Len(store) = 0
              THEN /\ store' = << NewEntry(<<"S", "W", "A", "G">>, Undefined) >>
                   /\ runStart'.store = store'
                   /\ runPc' = "check"
                   /\ runIssued' = <<1>>
              ELSE Len(store') = Len(store) ]_vars

\* C40's case: at noon on 1 February the page was opened over two records, of
\* different `state`, both checked 24 hours before: both were selected, and a delete
\* of their one key has removed both
C40_Witness ==
    /\ runStart.now = 3
    /\ Len(runStart.store) = 2
    /\ runStart.store[1].state # runStart.store[2].state
    /\ runStart.store[1].lastCheckedUtc = 1
    /\ runStart.store[2].lastCheckedUtc = 1
    /\ HoursBetween(1, 3) = 24
    /\ runPc = "check"
    /\ runIssued = <<1>>
    /\ store = <<>>

====
